---- MODULE Spec2Model ----
(***************************************************************************)
(* LVGL Builder: the markup parser (parseXmlToNodes), the serializer       *)
(* (nodesToXml) and the code emitter (generateCode) of codeGenerator.ts.   *)
(*                                                                         *)
(* Text.  A JavaScript string is a sequence of chunks; a chunk is a piece  *)
(* of text that no operation of the program looks inside.  The chunks are  *)
(* cut so that every substring the code searches for is a chunk of its     *)
(* own: "lv_", "color", "#", "@", the quote, the backslash, "&" and the     *)
(* entity tails "quot;" and "amp;".                                        *)
(*                                                                         *)
(* Markup.  A document is a sequence of lexical tokens: the declaration,   *)
(* an opening tag, a self-closed tag, a closing tag, white space, and a    *)
(* tag that the end of the text cuts short.  Every token carries its tag   *)
(* name and its attributes; an attribute carries its raw text as written   *)
(* between the quotes, or no text at all (a boolean attribute).            *)
(***************************************************************************)
EXTENDS Integers, Sequences, FiniteSets, TLC

VARIABLES xmlContent, nodes, xmlOut, nodes2, xmlOut2, pc,
          _componentCounter, rootNodes, generateComments, sourceContent,
          firstNodes, firstComments, firstContent, between,
          selectedNodeId, draggedComponent, generatedIds,
          activation, subscriptions, commands, customEditors,
          activeTextEditor, shownMessages, openedWith,
          documentUri, writtenFiles,
          toHost, toWebview, panelBound, edits

vars == <<xmlContent, nodes, xmlOut, nodes2, xmlOut2, pc,
          _componentCounter, rootNodes, generateComments, sourceContent,
          firstNodes, firstComments, firstContent, between,
          selectedNodeId, draggedComponent, generatedIds,
          activation, subscriptions, commands, customEditors,
          activeTextEditor, shownMessages, openedWith,
          documentUri, writtenFiles,
          toHost, toWebview, panelBound, edits>>

\* the state of the webview's editor
editorVars == <<selectedNodeId, draggedComponent, generatedIds>>

\* the extension in its host: whether it is activated, what it has
\* registered, and what the window shows
extensionVars == <<activation, subscriptions, commands, customEditors,
                   activeTextEditor, shownMessages, openedWith,
                   documentUri, writtenFiles>>

\* the files of the document's folder are not looked at
fileVars == <<documentUri, writtenFiles>>

\* no document is open in the custom editor
NoDocument == <<>>

\* the messages posted and not yet handled, from the webview to the
\* extension and back; whether the listeners of the properties panel hold
\* a node of the current forest; the number of edits made
syncVars == <<toHost, toWebview, panelBound, edits>>

\* nothing is posted, the properties panel is empty
Quiet == toHost = <<>> /\ toWebview = <<>> /\ panelBound = FALSE /\ edits = 0

\* window.activeTextEditor === undefined
NoTextEditor == <<>>

\* the extension is installed and has not been activated
NotActivated ==
    /\ activation = "installed"
    /\ subscriptions = <<>> /\ commands = {} /\ customEditors = {}
    /\ activeTextEditor = NoTextEditor
    /\ shownMessages = <<>> /\ openedWith = {}
    /\ documentUri = NoDocument /\ writtenFiles = <<>>

----------------------------------------------------------------------------
(* Strings as chunk sequences *)

Range(s) == {s[i] : i \in 1..Len(s)}

StartsWith(s, c) == Len(s) > 0 /\ s[1] = c

Includes(s, c) == c \in Range(s)

\* String.prototype.replace with a string pattern: the first occurrence only
RECURSIVE ReplaceFirst(_, _, _)
ReplaceFirst(s, c, r) ==
    IF s = <<>> THEN <<>>
    ELSE IF Head(s) = c THEN r \o Tail(s)
    ELSE <<Head(s)>> \o ReplaceFirst(Tail(s), c, r)

\* String.prototype.replace with a /c/g pattern: every occurrence
RECURSIVE ReplaceAll(_, _, _)
ReplaceAll(s, c, r) ==
    IF s = <<>> THEN <<>>
    ELSE (IF Head(s) = c THEN r ELSE <<Head(s)>>) \o ReplaceAll(Tail(s), c, r)

\* a /c1c2/g pattern over two adjacent chunks, scanned left to right
RECURSIVE ReplacePair(_, _, _, _)
ReplacePair(s, c1, c2, r) ==
    IF Len(s) < 2 THEN s
    ELSE IF s[1] = c1 /\ s[2] = c2
         THEN r \o ReplacePair(Tail(Tail(s)), c1, c2, r)
         ELSE <<Head(s)>> \o ReplacePair(Tail(s), c1, c2, r)

RECURSIVE TrimLeft(_)
TrimLeft(s) == IF s # <<>> /\ Head(s) = " " THEN TrimLeft(Tail(s)) ELSE s

RECURSIVE TrimRight(_)
TrimRight(s) ==
    IF s # <<>> /\ s[Len(s)] = " " THEN TrimRight(SubSeq(s, 1, Len(s) - 1)) ELSE s

Trim(s) == TrimRight(TrimLeft(s))

----------------------------------------------------------------------------
(* JavaScript values and objects.  An object is the sequence of its        *)
(* entries [k, v] in insertion order, keys unique.                         *)

Undefined == [j |-> "undef", s |-> <<>>, e |-> <<>>]
Str(s)    == [j |-> "str",   s |-> s,    e |-> <<>>]
True      == [j |-> "bool",  s |-> <<"true">>, e |-> <<>>]
Obj(e)    == [j |-> "obj",   s |-> <<>>, e |-> e]
Arr(a)    == [j |-> "arr",   s |-> <<>>, e |-> a]

HasKey(o, k) == \E i \in 1..Len(o) : o[i].k = k

Get(o, k) ==
    IF HasKey(o, k) THEN o[CHOOSE i \in 1..Len(o) : o[i].k = k].v ELSE Undefined

\* o[k] = v: a new key goes last, an old key keeps its place
Put(o, k, v) ==
    IF HasKey(o, k)
    THEN [i \in 1..Len(o) |-> IF o[i].k = k THEN [k |-> k, v |-> v] ELSE o[i]]
    ELSE Append(o, [k |-> k, v |-> v])

Truthy(v) == v.j # "undef" /\ ~(v.j = "str" /\ v.s = <<>>)

IsObject(v) == v.j \in {"obj", "arr"}

RECURSIVE JoinStrings(_)
JsString(v) ==
    CASE v.j = "str"  -> v.s
      [] v.j = "bool" -> v.s
      [] v.j = "obj"  -> <<"[object Object]">>
      [] v.j = "arr"  -> JoinStrings(v.e)
      [] OTHER        -> <<"undefined">>
JoinStrings(a) ==
    IF a = <<>> THEN <<>>
    ELSE IF Len(a) = 1 THEN JsString(a[1])
    ELSE JsString(a[1]) \o <<",">> \o JoinStrings(Tail(a))

\* Object.entries: of an array, its indices as keys
Entries(v) ==
    CASE v.j = "obj" -> v.e
      [] v.j = "arr" -> [i \in 1..Len(v.e) |-> [k |-> <<ToString(i - 1)>>, v |-> v.e[i]]]
      [] OTHER       -> <<>>

----------------------------------------------------------------------------
(* Markup tokens *)

Attr(k, raw)  == [k |-> k, has |-> TRUE,  raw |-> raw]
BoolAttr(k)   == [k |-> k, has |-> FALSE, raw |-> <<>>]

Tok(t, tag, attrs) == [t |-> t, tag |-> tag, attrs |-> attrs]

DeclTok ==
    Tok("decl", <<"?xml">>,
        <<Attr(<<"version">>, <<"1.0">>), Attr(<<"encoding">>, <<"UTF-8">>)>>)
WsTok(text)        == Tok("ws", text, <<>>)
OpenTok(tag, as)   == Tok("open", tag, as)
EmptyTok(tag, as)  == Tok("empty", tag, as)
CloseTok(tag)      == Tok("close", tag, <<>>)
CutTok(tag)        == Tok("cut", tag, <<>>)

----------------------------------------------------------------------------
(* fast-xml-parser, XMLParser.parse with the options of parseXmlToNodes:   *)
(* attributes kept under their own names, boolean attributes allowed; all  *)
(* other options at their defaults (attribute values are not parsed,       *)
(* values are trimmed, entities are processed, order is not preserved).    *)

\* &quot; first, &amp; last
replaceEntitiesValue(val) ==
    ReplacePair(ReplacePair(val, "&", "quot;", <<"\"">>), "&", "amp;", <<"&">>)

AttrValue(a) == IF a.has THEN Str(replaceEntitiesValue(Trim(a.raw))) ELSE True

RECURSIVE AttrFold(_, _)
AttrFold(as, acc) ==
    IF as = <<>> THEN acc
    ELSE AttrFold(Tail(as), Put(acc, Head(as).k, AttrValue(Head(as))))

buildAttributesMap(as) == AttrFold(as, <<>>)

XmlNode(tagname, attrs, child) == [tagname |-> tagname, attrs |-> attrs, child |-> child]

\* the innermost open element is closed and becomes the last child of the one below it
PopInto(stack) ==
    LET n   == Len(stack)
        top == stack[n]
        par == stack[n - 1]
    IN  Append(SubSeq(stack, 1, n - 2),
               XmlNode(par.tagname, par.attrs, Append(par.child, top)))

AddChild(stack, node) ==
    LET n   == Len(stack)
        cur == stack[n]
    IN  Append(SubSeq(stack, 1, n - 1),
               XmlNode(cur.tagname, cur.attrs, Append(cur.child, node)))

RECURSIVE CloseAll(_)
CloseAll(stack) == IF Len(stack) = 1 THEN stack[1].child ELSE CloseAll(PopInto(stack))

Thrown == [thrown |-> TRUE, child |-> <<>>]

\* OrderedObjParser.parseXml: `stack` holds the open elements above the
\* document node, `alive` is whether currentNode is defined (a closing tag
\* met at the document node pops an empty stack and leaves it undefined).
RECURSIVE parseXmlFrom(_, _, _, _)
parseXmlFrom(toks, i, stack, alive) ==
    IF i > Len(toks) THEN [thrown |-> FALSE, child |-> CloseAll(stack)]
    ELSE LET tk == toks[i] IN
         CASE tk.t = "ws"    -> parseXmlFrom(toks, i + 1, stack, alive)
           [] tk.t = "cut"   -> Thrown
           [] tk.t = "close" ->
                IF ~alive \/ Len(stack) = 1
                THEN parseXmlFrom(toks, i + 1, stack, FALSE)
                ELSE parseXmlFrom(toks, i + 1, PopInto(stack), TRUE)
           [] tk.t \in {"empty", "decl"} ->
                IF ~alive THEN Thrown
                ELSE parseXmlFrom(toks, i + 1,
                        AddChild(stack, XmlNode(tk.tag, buildAttributesMap(tk.attrs), <<>>)),
                        TRUE)
           [] tk.t = "open"  ->
                IF ~alive THEN Thrown
                ELSE parseXmlFrom(toks, i + 1,
                        Append(stack, XmlNode(tk.tag, buildAttributesMap(tk.attrs), <<>>)),
                        TRUE)

parseXml(toks) == parseXmlFrom(toks, 1, <<XmlNode(<<"!xml">>, <<>>, <<>>)>>, TRUE)

RECURSIVE assignAttributes(_, _)
assignAttributes(obj, attrMap) ==
    IF attrMap = <<>> THEN obj
    ELSE assignAttributes(Put(obj, Head(attrMap).k, Head(attrMap).v), Tail(attrMap))

\* node2json compress: the children first, grouped by tag name in the order
\* each name first appears, then the attributes; an element with neither is ''
RECURSIVE compress(_)
RECURSIVE CompressFold(_, _, _)
CompressFold(arr, i, obj) ==
    IF i > Len(arr) THEN obj
    ELSE LET tagObj   == arr[i]
             property == tagObj.tagname
             val0     == compress(tagObj.child)
             val      == IF tagObj.attrs # <<>>
                         THEN Obj(assignAttributes(val0, tagObj.attrs))
                         ELSE IF val0 = <<>> THEN Str(<<>>) ELSE Obj(val0)
             old      == Get(obj, property)
             obj2     == IF HasKey(obj, property)
                         THEN IF old.j = "arr"
                              THEN Put(obj, property, Arr(Append(old.e, val)))
                              ELSE Put(obj, property, Arr(<<old, val>>))
                         ELSE Put(obj, property, val)
         IN  CompressFold(arr, i + 1, obj2)
compress(arr) == CompressFold(arr, 1, <<>>)

----------------------------------------------------------------------------
(* parseXmlToNodes / parseChildren *)

\* a property value: ty is the JavaScript type, s its text (String(value))
PV(ty, s) == [ty |-> ty, s |-> s]

ToPV(v) == IF v.j = "bool" THEN PV("boolean", v.s) ELSE PV("string", v.s)

LvglNode(id, type, name, properties, children) ==
    [id |-> id, type |-> type, name |-> name,
     properties |-> properties, children |-> children]

\* `${key}_${Date.now()}_${Math.random().toString(36).slice(2, 11)}`
SynthId(key) == key \o <<"_", "<now>", "_", "<random>">>

RECURSIVE ExtractProperties(_, _)
ExtractProperties(nodeItem, acc) ==
    IF nodeItem = <<>> THEN acc
    ELSE LET propKey   == Head(nodeItem).k
             propValue == Head(nodeItem).v
         IN  IF propKey = <<"id">> \/ propKey = <<"name">> \/ IsObject(propValue)
             THEN ExtractProperties(Tail(nodeItem), acc)
             ELSE ExtractProperties(Tail(nodeItem), Put(acc, propKey, ToPV(propValue)))

\* (a slip: the prefix is put before every tag name)
NodeTypeAlwaysPrefixed(key) == <<"lv_">> \o key

\* key.startsWith('lv_') ? key : `lv_${key}`
NodeType(key) == IF StartsWith(key, "lv_") THEN key ELSE <<"lv_">> \o key

RECURSIVE parseChildren(_)
RECURSIVE ParseItems(_, _, _)
RECURSIVE ParseEntries(_, _)

MakeNode(key, nodeItem) ==
    LET idv   == Get(nodeItem, <<"id">>)
        namev == Get(nodeItem, <<"name">>)
    IN  LvglNode(IF Truthy(idv) THEN JsString(idv) ELSE SynthId(key),
                 NodeType(key),
                 IF Truthy(namev) THEN JsString(namev) ELSE key,
                 ExtractProperties(nodeItem, <<>>),
                 parseChildren(nodeItem))

ParseItems(key, items, n) ==
    IF n > Len(items) THEN <<>>
    ELSE (IF IsObject(items[n]) THEN <<MakeNode(key, Entries(items[n]))>> ELSE <<>>)
         \o ParseItems(key, items, n + 1)

ParseEntries(parent, i) ==
    IF i > Len(parent) THEN <<>>
    ELSE LET key   == parent[i].k
             value == parent[i].v
         IN  (IF StartsWith(key, "@") \/ key = <<"#text">> \/ key = <<"lvgl">>
              THEN <<>>
              ELSE ParseItems(key, IF value.j = "arr" THEN value.e ELSE <<value>>, 1))
             \o ParseEntries(parent, i + 1)

parseChildren(parent) == ParseEntries(parent, 1)

\* (a slip: the parsed document is itself taken for an element)
parseXmlToNodesNoUnwrap(content) ==
    LET r == parseXml(content) IN
    IF r.thrown THEN <<>>
    ELSE parseChildren(<<[k |-> <<"document">>, v |-> Obj(compress(r.child))]>>)

parseXmlToNodes(content) ==
    LET r == parseXml(content) IN
    IF r.thrown THEN <<>>
    ELSE LET parsed == compress(r.child)
             lvgl   == Get(parsed, <<"lvgl">>)
             root   == IF Truthy(lvgl) THEN lvgl ELSE Obj(parsed)
         IN  parseChildren(Entries(root))

----------------------------------------------------------------------------
(* nodesToXml / nodeToXml.  The attribute text is written between double   *)
(* quotes: id and name as they are, a string property with its quotes      *)
(* replaced by &quot;, any other property through String().                *)

\* (a slip: the properties are written last to first)
RECURSIVE PropertiesToXmlReversed(_)
PropertiesToXmlReversed(properties) ==
    IF properties = <<>> THEN <<>>
    ELSE LET key   == Head(properties).k
             value == Head(properties).v
         IN  PropertiesToXmlReversed(Tail(properties))
             \o <<Attr(key, IF value.ty = "string"
                            THEN ReplaceAll(value.s, "\"", <<"&", "quot;">>)
                            ELSE value.s)>>

RECURSIVE PropertiesToXml(_)
PropertiesToXml(properties) ==
    IF properties = <<>> THEN <<>>
    ELSE LET key   == Head(properties).k
             value == Head(properties).v
         IN  <<Attr(key, IF value.ty = "string"
                         THEN ReplaceAll(value.s, "\"", <<"&", "quot;">>)
                         ELSE value.s)>>
             \o PropertiesToXml(Tail(properties))

RECURSIVE nodeToXml(_, _)
RECURSIVE ChildrenToXml(_, _)
ChildrenToXml(children, indent) ==
    IF children = <<>> THEN <<>>
    ELSE nodeToXml(Head(children), indent) \o ChildrenToXml(Tail(children), indent)

nodeToXml(node, indent) ==
    LET tagName == ReplaceFirst(node.type, "lv_", <<>>)
        attrs   == <<Attr(<<"id">>, node.id), Attr(<<"name">>, node.name)>>
                   \o PropertiesToXml(node.properties)
    IN  IF Len(node.children) > 0
        THEN <<WsTok(indent), OpenTok(tagName, attrs), WsTok(<<"\n">>)>>
             \o ChildrenToXml(node.children, indent \o <<"  ">>)
             \o <<WsTok(indent), CloseTok(tagName), WsTok(<<"\n">>)>>
        ELSE <<WsTok(indent), EmptyTok(tagName, attrs), WsTok(<<"\n">>)>>

nodesToXml(forest) ==
    <<DeclTok, WsTok(<<"\n">>),
      OpenTok(<<"lvgl">>, <<Attr(<<"version">>, <<"1.0">>)>>), WsTok(<<"\n">>)>>
    \o ChildrenToXml(forest, <<"  ">>)
    \o <<CloseTok(<<"lvgl">>), WsTok(<<"\n">>)>>

----------------------------------------------------------------------------
(* The component registry *)

Comp(type, displayName, createCode, canHaveChildren) ==
    [type |-> type, displayName |-> displayName, createCode |-> createCode,
     canHaveChildren |-> canHaveChildren]

lvglComponents == <<
    Comp(<<"lv_", "obj">>, "Object", "lv_obj_create", TRUE),
    Comp(<<"lv_", "label">>, "Label", "lv_label_create", FALSE),
    Comp(<<"lv_", "btn">>, "Button", "lv_btn_create", TRUE),
    Comp(<<"lv_", "btnmatrix">>, "Button Matrix", "lv_btnmatrix_create", FALSE),
    Comp(<<"lv_", "img">>, "Image", "lv_img_create", FALSE),
    Comp(<<"lv_", "line">>, "Line", "lv_line_create", FALSE),
    Comp(<<"lv_", "arc">>, "Arc", "lv_arc_create", FALSE),
    Comp(<<"lv_", "bar">>, "Bar", "lv_bar_create", FALSE),
    Comp(<<"lv_", "slider">>, "Slider", "lv_slider_create", FALSE),
    Comp(<<"lv_", "switch">>, "Switch", "lv_switch_create", FALSE),
    Comp(<<"lv_", "checkbox">>, "Checkbox", "lv_checkbox_create", FALSE),
    Comp(<<"lv_", "dropdown">>, "Dropdown", "lv_dropdown_create", FALSE),
    Comp(<<"lv_", "roller">>, "Roller", "lv_roller_create", FALSE),
    Comp(<<"lv_", "textarea">>, "Textarea", "lv_textarea_create", FALSE),
    Comp(<<"lv_", "table">>, "Table", "lv_table_create", FALSE),
    Comp(<<"lv_", "chart">>, "Chart", "lv_chart_create", FALSE),
    Comp(<<"lv_", "calendar">>, "Calendar", "lv_calendar_create", FALSE),
    Comp(<<"lv_", "keyboard">>, "Keyboard", "lv_keyboard_create", FALSE),
    Comp(<<"lv_", "list">>, "List", "lv_list_create", TRUE),
    Comp(<<"lv_", "msgbox">>, "Message Box", "lv_msgbox_create", FALSE),
    Comp(<<"lv_", "spinbox">>, "Spinbox", "lv_spinbox_create", FALSE),
    Comp(<<"lv_", "spinner">>, "Spinner", "lv_spinner_create", FALSE),
    Comp(<<"lv_", "tabview">>, "Tabview", "lv_tabview_create", TRUE),
    Comp(<<"lv_", "tileview">>, "Tileview", "lv_tileview_create", TRUE),
    Comp(<<"lv_", "win">>, "Window", "lv_win_create", TRUE),
    Comp(<<"lv_", "animimg">>, "Animation Image", "lv_animimg_create", FALSE),
    Comp(<<"lv_", "canvas">>, "Canvas", "lv_canvas_create", FALSE),
    Comp(<<"lv_", "imgbtn">>, "Image Button", "lv_imgbtn_create", FALSE),
    Comp(<<"lv_", "led">>, "LED", "lv_led_create", FALSE),
    Comp(<<"lv_", "menu">>, "Menu", "lv_menu_create", TRUE),
    Comp(<<"lv_", "scale">>, "Scale", "lv_scale_create", FALSE),
    Comp(<<"lv_", "spangroup">>, "Span Group", "lv_spangroup_create", FALSE),
    Comp(<<"lv_", "colorwheel">>, "Color Wheel", "lv_colorwheel_create", FALSE),
    Comp(<<"lv_", "meter">>, "Meter", "lv_meter_create", FALSE) >>

\* lvglComponents.find(c => c.type === type); no record stands for undefined
NoComponent == Comp(<<>>, "", "", FALSE)

getComponentByType(type) ==
    IF \E i \in 1..Len(lvglComponents) : lvglComponents[i].type = type
    THEN lvglComponents[CHOOSE i \in 1..Len(lvglComponents) :
                            /\ lvglComponents[i].type = type
                            /\ \A h \in 1..(i - 1) : lvglComponents[h].type # type]
    ELSE NoComponent

\* LvglProperty: the name, the type of the input, the default value and,
\* of a select, the options
P(name, type, default, options) ==
    [name |-> name, type |-> type, default |-> default, options |-> options]

commonStyleProperties ==
    <<P(<<"x">>, "number", PV("number", <<"0">>), <<>>),
      P(<<"y">>, "number", PV("number", <<"0">>), <<>>),
      P(<<"width">>, "number", PV("number", <<"100">>), <<>>),
      P(<<"height">>, "number", PV("number", <<"50">>), <<>>),
      P(<<"bg_", "color">>, "color", PV("string", <<"#", "ffffff">>), <<>>),
      P(<<"bg_opa">>, "number", PV("number", <<"255">>), <<>>),
      P(<<"border_", "color">>, "color", PV("string", <<"#", "000000">>), <<>>),
      P(<<"border_width">>, "number", PV("number", <<"0">>), <<>>),
      P(<<"radius">>, "number", PV("number", <<"0">>), <<>>),
      P(<<"pad_top">>, "number", PV("number", <<"0">>), <<>>),
      P(<<"pad_bottom">>, "number", PV("number", <<"0">>), <<>>),
      P(<<"pad_left">>, "number", PV("number", <<"0">>), <<>>),
      P(<<"pad_right">>, "number", PV("number", <<"0">>), <<>>)>>

layoutProperties ==
    <<P(<<"layout">>, "select", PV("string", <<"none">>), <<<<"none">>, <<"flex">>, <<"grid">>>>),
      P(<<"flex_flow">>, "select", PV("string", <<"row">>), <<<<"row">>, <<"column">>, <<"row_wrap">>, <<"row_reverse">>, <<"column_reverse">>, <<"column_wrap">>>>),
      P(<<"flex_main_place">>, "select", PV("string", <<"start">>), <<<<"start">>, <<"end">>, <<"center">>, <<"space_evenly">>, <<"space_around">>, <<"space_between">>>>),
      P(<<"flex_cross_place">>, "select", PV("string", <<"start">>), <<<<"start">>, <<"end">>, <<"center">>>>),
      P(<<"flex_track_place">>, "select", PV("string", <<"start">>), <<<<"start">>, <<"end">>, <<"center">>, <<"space_evenly">>, <<"space_around">>, <<"space_between">>>>),
      P(<<"pad_row">>, "number", PV("number", <<"0">>), <<>>),
      P(<<"pad_column">>, "number", PV("number", <<"0">>), <<>>)>>

componentProperties(type) ==
    CASE type = <<"lv_", "obj">> ->
            <<P(<<"name">>, "string", PV("string", <<"obj">>), <<>>)>>
            \o commonStyleProperties
            \o layoutProperties
      [] type = <<"lv_", "label">> ->
            <<P(<<"name">>, "string", PV("string", <<"label">>), <<>>),
              P(<<"text">>, "string", PV("string", <<"Label">>), <<>>),
              P(<<"long_mode">>, "select", PV("string", <<"wrap">>), <<<<"wrap">>, <<"dot">>, <<"scroll">>, <<"scroll_circular">>, <<"clip">>>>),
              P(<<"text_", "color">>, "color", PV("string", <<"#", "000000">>), <<>>)>>
            \o commonStyleProperties
      [] type = <<"lv_", "btn">> ->
            <<P(<<"name">>, "string", PV("string", <<"btn">>), <<>>)>>
            \o commonStyleProperties
            \o layoutProperties
      [] type = <<"lv_", "btnmatrix">> ->
            <<P(<<"name">>, "string", PV("string", <<"btnmatrix">>), <<>>),
              P(<<"map">>, "string", PV("string", <<"Btn1", "\\", "nBtn2", "\\", "nBtn3", "\\", "n">>), <<>>),
              P(<<"one_checked">>, "boolean", PV("boolean", <<"false">>), <<>>)>>
            \o commonStyleProperties
      [] type = <<"lv_", "img">> ->
            <<P(<<"name">>, "string", PV("string", <<"img">>), <<>>),
              P(<<"src">>, "string", PV("string", <<>>), <<>>),
              P(<<"zoom">>, "number", PV("number", <<"256">>), <<>>),
              P(<<"angle">>, "number", PV("number", <<"0">>), <<>>)>>
            \o commonStyleProperties
      [] type = <<"lv_", "line">> ->
            <<P(<<"name">>, "string", PV("string", <<"line">>), <<>>),
              P(<<"line_", "color">>, "color", PV("string", <<"#", "000000">>), <<>>),
              P(<<"line_width">>, "number", PV("number", <<"1">>), <<>>)>>
            \o commonStyleProperties
      [] type = <<"lv_", "arc">> ->
            <<P(<<"name">>, "string", PV("string", <<"arc">>), <<>>),
              P(<<"start_angle">>, "number", PV("number", <<"135">>), <<>>),
              P(<<"end_angle">>, "number", PV("number", <<"45">>), <<>>),
              P(<<"bg_start_angle">>, "number", PV("number", <<"135">>), <<>>),
              P(<<"bg_end_angle">>, "number", PV("number", <<"45">>), <<>>),
              P(<<"value">>, "number", PV("number", <<"0">>), <<>>),
              P(<<"min">>, "number", PV("number", <<"0">>), <<>>),
              P(<<"max">>, "number", PV("number", <<"100">>), <<>>),
              P(<<"mode">>, "select", PV("string", <<"normal">>), <<<<"normal">>, <<"symmetrical">>, <<"reverse">>>>)>>
            \o commonStyleProperties
      [] type = <<"lv_", "bar">> ->
            <<P(<<"name">>, "string", PV("string", <<"bar">>), <<>>),
              P(<<"value">>, "number", PV("number", <<"0">>), <<>>),
              P(<<"min">>, "number", PV("number", <<"0">>), <<>>),
              P(<<"max">>, "number", PV("number", <<"100">>), <<>>),
              P(<<"mode">>, "select", PV("string", <<"normal">>), <<<<"normal">>, <<"symmetrical">>, <<"range">>>>)>>
            \o commonStyleProperties
      [] type = <<"lv_", "slider">> ->
            <<P(<<"name">>, "string", PV("string", <<"slider">>), <<>>),
              P(<<"value">>, "number", PV("number", <<"0">>), <<>>),
              P(<<"min">>, "number", PV("number", <<"0">>), <<>>),
              P(<<"max">>, "number", PV("number", <<"100">>), <<>>),
              P(<<"mode">>, "select", PV("string", <<"normal">>), <<<<"normal">>, <<"symmetrical">>, <<"range">>>>)>>
            \o commonStyleProperties
      [] type = <<"lv_", "switch">> ->
            <<P(<<"name">>, "string", PV("string", <<"sw">>), <<>>),
              P(<<"checked">>, "boolean", PV("boolean", <<"false">>), <<>>)>>
            \o commonStyleProperties
      [] type = <<"lv_", "checkbox">> ->
            <<P(<<"name">>, "string", PV("string", <<"cb">>), <<>>),
              P(<<"text">>, "string", PV("string", <<"Checkbox">>), <<>>),
              P(<<"checked">>, "boolean", PV("boolean", <<"false">>), <<>>)>>
            \o commonStyleProperties
      [] type = <<"lv_", "dropdown">> ->
            <<P(<<"name">>, "string", PV("string", <<"dropdown">>), <<>>),
              P(<<"options">>, "string", PV("string", <<"Option 1", "\\", "nOption 2", "\\", "nOption 3">>), <<>>),
              P(<<"selected">>, "number", PV("number", <<"0">>), <<>>),
              P(<<"dir">>, "select", PV("string", <<"bottom">>), <<<<"bottom">>, <<"top">>, <<"left">>, <<"right">>>>)>>
            \o commonStyleProperties
      [] type = <<"lv_", "roller">> ->
            <<P(<<"name">>, "string", PV("string", <<"roller">>), <<>>),
              P(<<"options">>, "string", PV("string", <<"Option 1", "\\", "nOption 2", "\\", "nOption 3">>), <<>>),
              P(<<"selected">>, "number", PV("number", <<"0">>), <<>>),
              P(<<"visible_row_count">>, "number", PV("number", <<"3">>), <<>>),
              P(<<"mode">>, "select", PV("string", <<"normal">>), <<<<"normal">>, <<"infinite">>>>)>>
            \o commonStyleProperties
      [] type = <<"lv_", "textarea">> ->
            <<P(<<"name">>, "string", PV("string", <<"ta">>), <<>>),
              P(<<"text">>, "string", PV("string", <<>>), <<>>),
              P(<<"placeholder">>, "string", PV("string", <<"Type here...">>), <<>>),
              P(<<"one_line">>, "boolean", PV("boolean", <<"false">>), <<>>),
              P(<<"password_mode">>, "boolean", PV("boolean", <<"false">>), <<>>),
              P(<<"max_length">>, "number", PV("number", <<"0">>), <<>>)>>
            \o commonStyleProperties
      [] type = <<"lv_", "table">> ->
            <<P(<<"name">>, "string", PV("string", <<"table">>), <<>>),
              P(<<"row_count">>, "number", PV("number", <<"2">>), <<>>),
              P(<<"col_count">>, "number", PV("number", <<"2">>), <<>>)>>
            \o commonStyleProperties
      [] type = <<"lv_", "chart">> ->
            <<P(<<"name">>, "string", PV("string", <<"chart">>), <<>>),
              P(<<"type">>, "select", PV("string", <<"line">>), <<<<"line">>, <<"bar">>, <<"scatter">>>>),
              P(<<"point_count">>, "number", PV("number", <<"10">>), <<>>),
              P(<<"range_min">>, "number", PV("number", <<"0">>), <<>>),
              P(<<"range_max">>, "number", PV("number", <<"100">>), <<>>)>>
            \o commonStyleProperties
      [] type = <<"lv_", "calendar">> ->
            <<P(<<"name">>, "string", PV("string", <<"calendar">>), <<>>),
              P(<<"today_year">>, "number", PV("number", <<"new">>), <<>>),
              P(<<"today_month">>, "number", PV("number", <<"1">>), <<>>),
              P(<<"today_day">>, "number", PV("number", <<"1">>), <<>>)>>
            \o commonStyleProperties
      [] type = <<"lv_", "keyboard">> ->
            <<P(<<"name">>, "string", PV("string", <<"kb">>), <<>>),
              P(<<"mode">>, "select", PV("string", <<"text_lower">>), <<<<"text_lower">>, <<"text_upper">>, <<"special">>, <<"number">>>>)>>
            \o commonStyleProperties
      [] type = <<"lv_", "list">> ->
            <<P(<<"name">>, "string", PV("string", <<"list">>), <<>>)>>
            \o commonStyleProperties
            \o layoutProperties
      [] type = <<"lv_", "msgbox">> ->
            <<P(<<"name">>, "string", PV("string", <<"msgbox">>), <<>>),
              P(<<"title">>, "string", PV("string", <<"Title">>), <<>>),
              P(<<"text">>, "string", PV("string", <<"Message content">>), <<>>),
              P(<<"close_button">>, "boolean", PV("boolean", <<"true">>), <<>>)>>
            \o commonStyleProperties
      [] type = <<"lv_", "spinbox">> ->
            <<P(<<"name">>, "string", PV("string", <<"spinbox">>), <<>>),
              P(<<"value">>, "number", PV("number", <<"0">>), <<>>),
              P(<<"min">>, "number", PV("number", <<"-9999">>), <<>>),
              P(<<"max">>, "number", PV("number", <<"9999">>), <<>>),
              P(<<"step">>, "number", PV("number", <<"1">>), <<>>),
              P(<<"digit_count">>, "number", PV("number", <<"5">>), <<>>),
              P(<<"separator_position">>, "number", PV("number", <<"0">>), <<>>)>>
            \o commonStyleProperties
      [] type = <<"lv_", "spinner">> ->
            <<P(<<"name">>, "string", PV("string", <<"spinner">>), <<>>),
              P(<<"time">>, "number", PV("number", <<"1000">>), <<>>),
              P(<<"arc_length">>, "number", PV("number", <<"60">>), <<>>)>>
            \o commonStyleProperties
      [] type = <<"lv_", "tabview">> ->
            <<P(<<"name">>, "string", PV("string", <<"tabview">>), <<>>),
              P(<<"tab_pos">>, "select", PV("string", <<"top">>), <<<<"top">>, <<"bottom">>, <<"left">>, <<"right">>>>),
              P(<<"tab_size">>, "number", PV("number", <<"40">>), <<>>)>>
            \o commonStyleProperties
      [] type = <<"lv_", "tileview">> ->
            <<P(<<"name">>, "string", PV("string", <<"tileview">>), <<>>)>>
            \o commonStyleProperties
      [] type = <<"lv_", "win">> ->
            <<P(<<"name">>, "string", PV("string", <<"win">>), <<>>),
              P(<<"title">>, "string", PV("string", <<"Window">>), <<>>),
              P(<<"header_height">>, "number", PV("number", <<"40">>), <<>>)>>
            \o commonStyleProperties
      [] type = <<"lv_", "animimg">> ->
            <<P(<<"name">>, "string", PV("string", <<"animimg">>), <<>>),
              P(<<"duration">>, "number", PV("number", <<"1000">>), <<>>),
              P(<<"repeat_count">>, "number", PV("number", <<"-1">>), <<>>)>>
            \o commonStyleProperties
      [] type = <<"lv_", "canvas">> ->
            <<P(<<"name">>, "string", PV("string", <<"canvas">>), <<>>)>>
            \o commonStyleProperties
      [] type = <<"lv_", "imgbtn">> ->
            <<P(<<"name">>, "string", PV("string", <<"imgbtn">>), <<>>),
              P(<<"src_left">>, "string", PV("string", <<>>), <<>>),
              P(<<"src_mid">>, "string", PV("string", <<>>), <<>>),
              P(<<"src_right">>, "string", PV("string", <<>>), <<>>)>>
            \o commonStyleProperties
      [] type = <<"lv_", "led">> ->
            <<P(<<"name">>, "string", PV("string", <<"led">>), <<>>),
              P(<<"brightness">>, "number", PV("number", <<"255">>), <<>>),
              P(<<"color">>, "color", PV("string", <<"#", "00ff00">>), <<>>)>>
            \o commonStyleProperties
      [] type = <<"lv_", "menu">> ->
            <<P(<<"name">>, "string", PV("string", <<"menu">>), <<>>),
              P(<<"mode_header">>, "select", PV("string", <<"top_fixed">>), <<<<"top_fixed">>, <<"top_static">>, <<"bottom_fixed">>>>),
              P(<<"mode_root_back_btn">>, "select", PV("string", <<"enabled">>), <<<<"enabled">>, <<"disabled">>>>)>>
            \o commonStyleProperties
            \o layoutProperties
      [] type = <<"lv_", "scale">> ->
            <<P(<<"name">>, "string", PV("string", <<"scale">>), <<>>),
              P(<<"mode">>, "select", PV("string", <<"horizontal_bottom">>), <<<<"horizontal_top">>, <<"horizontal_bottom">>, <<"vertical_left">>, <<"vertical_right">>, <<"round_inner">>, <<"round_outer">>>>),
              P(<<"total_tick_count">>, "number", PV("number", <<"11">>), <<>>),
              P(<<"major_tick_every">>, "number", PV("number", <<"5">>), <<>>),
              P(<<"range_min">>, "number", PV("number", <<"0">>), <<>>),
              P(<<"range_max">>, "number", PV("number", <<"100">>), <<>>)>>
            \o commonStyleProperties
      [] type = <<"lv_", "spangroup">> ->
            <<P(<<"name">>, "string", PV("string", <<"spangroup">>), <<>>),
              P(<<"align">>, "select", PV("string", <<"left">>), <<<<"left">>, <<"center">>, <<"right">>>>),
              P(<<"overflow">>, "select", PV("string", <<"clip">>), <<<<"clip">>, <<"ellipsis">>>>),
              P(<<"indent">>, "number", PV("number", <<"0">>), <<>>),
              P(<<"mode">>, "select", PV("string", <<"expand">>), <<<<"expand">>, <<"break">>, <<"fixed">>>>)>>
            \o commonStyleProperties
      [] type = <<"lv_", "color", "wheel">> ->
            <<P(<<"name">>, "string", PV("string", <<"color", "wheel">>), <<>>),
              P(<<"mode">>, "select", PV("string", <<"hue">>), <<<<"hue">>, <<"saturation">>, <<"value">>>>),
              P(<<"mode_fixed">>, "boolean", PV("boolean", <<"false">>), <<>>)>>
            \o commonStyleProperties
      [] type = <<"lv_", "meter">> ->
            <<P(<<"name">>, "string", PV("string", <<"meter">>), <<>>)>>
            \o commonStyleProperties
      [] OTHER -> <<>>

----------------------------------------------------------------------------
(* The code emitter.  A line of generated code is its indent, the function *)
(* it calls (or what kind of line it is) and the texts of its arguments.   *)

Line(k, indent, fn, args) == [k |-> k, indent |-> indent, fn |-> fn, args |-> args]

Call(indent, fn, args) == Line("call", indent, fn, args)
BlankLine              == Line("blank", <<>>, "", <<>>)

\* `${value}`
Template(value) == value.s

\* (a slip: any boolean passes)
IsBoolean(value) == value.ty = "boolean"

\* value === true
IsTrue(value) == value.ty = "boolean" /\ value.s = <<"true">>

\* a value used as a condition
TruthyValue(value) ==
    CASE value.ty = "boolean" -> value.s = <<"true">>
      [] value.ty = "number"  -> value.s \notin {<<"0">>, <<"-0">>, <<"NaN">>}
      [] OTHER                -> value.s # <<>>

\* (a slip: a colour is written like any other string)
propertyToCodeNoColour(propName, value) ==
    IF value.ty = "boolean"
    THEN (IF value.s = <<"true">> THEN <<"true">> ELSE <<"false">>)
    ELSE IF value.ty = "string"
    THEN <<"\"">>
         \o ReplaceAll(ReplaceAll(value.s, "\\", <<"\\", "\\">>), "\"", <<"\\", "\"">>)
         \o <<"\"">>
    ELSE value.s

propertyToCode(propName, value) ==
    IF value.ty = "boolean"
    THEN (IF value.s = <<"true">> THEN <<"true">> ELSE <<"false">>)
    ELSE IF value.ty = "string"
    THEN IF Includes(propName, "color") /\ StartsWith(value.s, "#")
         THEN <<"lv_color_hex(0x">> \o Tail(value.s) \o <<")">>
         ELSE <<"\"">>
              \o ReplaceAll(ReplaceAll(value.s, "\\", <<"\\", "\\">>), "\"", <<"\\", "\"">>)
              \o <<"\"">>
    ELSE value.s

\* (a slip: the table has lost its last row)
getStyleSetterShort(propName) ==
    CASE propName = <<"bg_", "color">>     -> "lv_obj_set_style_bg_color"
      [] propName = <<"bg_opa">>           -> "lv_obj_set_style_bg_opa"
      [] propName = <<"border_", "color">> -> "lv_obj_set_style_border_color"
      [] propName = <<"border_width">>     -> "lv_obj_set_style_border_width"
      [] propName = <<"radius">>           -> "lv_obj_set_style_radius"
      [] propName = <<"text_", "color">>   -> "lv_obj_set_style_text_color"
      [] propName = <<"line_", "color">>   -> "lv_obj_set_style_line_color"
      [] propName = <<"line_width">>       -> "lv_obj_set_style_line_width"
      [] propName = <<"pad_top">>          -> "lv_obj_set_style_pad_top"
      [] propName = <<"pad_bottom">>       -> "lv_obj_set_style_pad_bottom"
      [] propName = <<"pad_left">>         -> "lv_obj_set_style_pad_left"
      [] propName = <<"pad_right">>        -> "lv_obj_set_style_pad_right"
      [] propName = <<"pad_row">>          -> "lv_obj_set_style_pad_row"
      [] OTHER                             -> ""

getStyleSetter(propName) ==
    CASE propName = <<"bg_", "color">>     -> "lv_obj_set_style_bg_color"
      [] propName = <<"bg_opa">>           -> "lv_obj_set_style_bg_opa"
      [] propName = <<"border_", "color">> -> "lv_obj_set_style_border_color"
      [] propName = <<"border_width">>     -> "lv_obj_set_style_border_width"
      [] propName = <<"radius">>           -> "lv_obj_set_style_radius"
      [] propName = <<"text_", "color">>   -> "lv_obj_set_style_text_color"
      [] propName = <<"line_", "color">>   -> "lv_obj_set_style_line_color"
      [] propName = <<"line_width">>       -> "lv_obj_set_style_line_width"
      [] propName = <<"pad_top">>          -> "lv_obj_set_style_pad_top"
      [] propName = <<"pad_bottom">>       -> "lv_obj_set_style_pad_bottom"
      [] propName = <<"pad_left">>         -> "lv_obj_set_style_pad_left"
      [] propName = <<"pad_right">>        -> "lv_obj_set_style_pad_right"
      [] propName = <<"pad_row">>          -> "lv_obj_set_style_pad_row"
      [] propName = <<"pad_column">>       -> "lv_obj_set_style_pad_column"
      [] OTHER                             -> ""

modeMap(mode) ==
    CASE mode = <<"wrap">>            -> <<"LV_LABEL_LONG_WRAP">>
      [] mode = <<"dot">>             -> <<"LV_LABEL_LONG_DOT">>
      [] mode = <<"scroll">>          -> <<"LV_LABEL_LONG_SCROLL">>
      [] mode = <<"scroll_circular">> -> <<"LV_LABEL_LONG_SCROLL_CIRCULAR">>
      [] mode = <<"clip">>            -> <<"LV_LABEL_LONG_CLIP">>
      [] OTHER                        -> <<"LV_LABEL_LONG_WRAP">>

flowMap(flow) ==
    CASE flow = <<"row">>            -> <<"LV_FLEX_FLOW_ROW">>
      [] flow = <<"column">>         -> <<"LV_FLEX_FLOW_COLUMN">>
      [] flow = <<"row_wrap">>       -> <<"LV_FLEX_FLOW_ROW_WRAP">>
      [] flow = <<"row_reverse">>    -> <<"LV_FLEX_FLOW_ROW_REVERSE">>
      [] flow = <<"column_reverse">> -> <<"LV_FLEX_FLOW_COLUMN_REVERSE">>
      [] flow = <<"column_wrap">>    -> <<"LV_FLEX_FLOW_COLUMN_WRAP">>
      [] OTHER                       -> <<"LV_FLEX_FLOW_ROW">>

valueSetterMap(type) ==
    CASE type = <<"lv_", "arc">> -> "lv_arc_set_value"
      [] type = <<"lv_", "bar">> -> "lv_bar_set_value"
      [] OTHER                   -> "lv_slider_set_value"

\* the switch on node.type: the statements of one property of one kind
ComponentPropertyCode(type, varName, indent, propName, value) ==
    CASE type = <<"lv_", "label">> ->
            IF propName = <<"text">>
            THEN <<Call(indent, "lv_label_set_text", <<varName, propertyToCode(propName, value)>>)>>
            ELSE IF propName = <<"long_mode">>
            THEN <<Call(indent, "lv_label_set_long_mode", <<varName, modeMap(Template(value))>>)>>
            ELSE <<>>
      [] type = <<"lv_", "btn">> -> <<>>
      [] type \in {<<"lv_", "arc">>, <<"lv_", "bar">>, <<"lv_", "slider">>} ->
            IF propName = <<"value">>
            THEN <<Call(indent, valueSetterMap(type),
                        <<varName, Template(value), <<"LV_ANIM_OFF">>>>)>>
            ELSE <<>>
      [] type \in {<<"lv_", "switch">>, <<"lv_", "checkbox">>} ->
            (IF propName = <<"checked">> /\ IsTrue(value)
             THEN <<Call(indent, "lv_obj_add_state", <<varName, <<"LV_STATE_CHECKED">>>>)>>
             ELSE <<>>)
            \o
            (IF propName = <<"text">> /\ type = <<"lv_", "checkbox">>
             THEN <<Call(indent, "lv_checkbox_set_text",
                         <<varName, propertyToCode(propName, value)>>)>>
             ELSE <<>>)
      [] type \in {<<"lv_", "dropdown">>, <<"lv_", "roller">>} ->
            IF propName = <<"options">>
            THEN <<Call(indent,
                        IF type = <<"lv_", "dropdown">> THEN "lv_dropdown_set_options"
                                                         ELSE "lv_roller_set_options",
                        <<varName, propertyToCode(propName, value)>>
                        \o (IF type = <<"lv_", "roller">>
                            THEN <<<<"LV_ROLLER_MODE_NORMAL">>>> ELSE <<>>))>>
            ELSE IF propName = <<"selected">>
            THEN <<Call(indent,
                        IF type = <<"lv_", "dropdown">> THEN "lv_dropdown_set_selected"
                                                         ELSE "lv_roller_set_selected",
                        <<varName, Template(value), <<"LV_ANIM_OFF">>>>)>>
            ELSE <<>>
      [] type = <<"lv_", "textarea">> ->
            IF propName = <<"text">>
            THEN <<Call(indent, "lv_textarea_set_text",
                        <<varName, propertyToCode(propName, value)>>)>>
            ELSE IF propName = <<"placeholder">>
            THEN <<Call(indent, "lv_textarea_set_placeholder_text",
                        <<varName, propertyToCode(propName, value)>>)>>
            ELSE IF propName = <<"one_line">> /\ IsTrue(value)
            THEN <<Call(indent, "lv_textarea_set_one_line", <<varName, <<"true">>>>)>>
            ELSE IF propName = <<"password_mode">> /\ IsTrue(value)
            THEN <<Call(indent, "lv_textarea_set_password_mode", <<varName, <<"true">>>>)>>
            ELSE <<>>
      [] type = <<"lv_", "img">> ->
            IF propName = <<"src">> /\ TruthyValue(value)
            THEN <<Call(indent, "lv_img_set_src", <<varName, <<"&">> \o Template(value)>>)>>
            ELSE IF propName = <<"zoom">>
            THEN <<Call(indent, "lv_img_set_zoom", <<varName, Template(value)>>)>>
            ELSE IF propName = <<"angle">>
            THEN <<Call(indent, "lv_img_set_angle", <<varName, Template(value)>>)>>
            ELSE <<>>
      [] type = <<"lv_", "spinner">> -> <<>>
      [] OTHER ->
            IF propName = <<"layout">>
            THEN IF Template(value) = <<"flex">> /\ value.ty = "string"
                 THEN <<Call(indent, "lv_obj_set_layout", <<varName, <<"LV_LAYOUT_FLEX">>>>)>>
                 ELSE IF Template(value) = <<"grid">> /\ value.ty = "string"
                 THEN <<Call(indent, "lv_obj_set_layout", <<varName, <<"LV_LAYOUT_GRID">>>>)>>
                 ELSE <<>>
            ELSE IF propName = <<"flex_flow">>
            THEN <<Call(indent, "lv_obj_set_flex_flow", <<varName, flowMap(Template(value))>>)>>
            ELSE <<>>

\* one pass of the loop over Object.entries(node.properties)
PropertyCode(type, varName, indent, propName, value) ==
    IF propName \in {<<"x">>, <<"y">>, <<"width">>, <<"height">>, <<"name">>}
    THEN <<>>
    ELSE IF getStyleSetter(propName) # ""
    THEN IF Includes(propName, "color")
         THEN <<Call(indent, getStyleSetter(propName),
                     <<varName, propertyToCode(propName, value), <<"LV_PART_MAIN">>>>)>>
         ELSE <<Call(indent, getStyleSetter(propName),
                     <<varName, Template(value), <<"LV_PART_MAIN">>>>)>>
    ELSE ComponentPropertyCode(type, varName, indent, propName, value)

RECURSIVE PropertiesCode(_, _, _, _)
PropertiesCode(type, varName, indent, properties) ==
    IF properties = <<>> THEN <<>>
    ELSE PropertyCode(type, varName, indent, Head(properties).k, Head(properties).v)
         \o PropertiesCode(type, varName, indent, Tail(properties))

\* (a slip: no default, the missing value is written as it is)
GeometryNoDefault(properties, k, dflt) ==
    IF \E i \in 1..Len(properties) : properties[i].k = k
    THEN Template(properties[CHOOSE i \in 1..Len(properties) : properties[i].k = k].v)
    ELSE <<"undefined">>

\* node.properties[k] ?? dflt, as it is written into the statement
Geometry(properties, k, dflt) ==
    IF \E i \in 1..Len(properties) : properties[i].k = k
    THEN Template(properties[CHOOSE i \in 1..Len(properties) : properties[i].k = k].v)
    ELSE dflt

\* node.name || `${node.type.replace('lv_', '')}_${++_componentCounter}`
VarName(node, counter) ==
    IF node.name # <<>> THEN node.name
    ELSE ReplaceFirst(node.type, "lv_", <<>>) \o <<"_", ToString(counter + 1)>>

\* (a slip: the counter advances for a named node too)
CounterAlwaysAdvanced(node, counter) == counter + 1

CounterAfterName(node, counter) == IF node.name # <<>> THEN counter ELSE counter + 1

\* (a slip: the size statement is forgotten)
OwnCodeNoSize(node, componentDef, varName, parentVar, indent, comments) ==
    (IF comments
     THEN <<Line("comment", indent, "Create", <<<<componentDef.displayName>>, varName>>)>>
     ELSE <<>>)
    \o <<Line("decl", indent, componentDef.createCode, <<varName, parentVar>>),
         Call(indent, "lv_obj_set_pos",
              <<varName, Geometry(node.properties, <<"x">>, <<"0">>),
                         Geometry(node.properties, <<"y">>, <<"0">>)>>)>>
    \o PropertiesCode(node.type, varName, indent, node.properties)
    \o <<BlankLine>>

\* the statements of the node itself, up to the blank line
OwnCode(node, componentDef, varName, parentVar, indent, comments) ==
    (IF comments
     THEN <<Line("comment", indent, "Create", <<<<componentDef.displayName>>, varName>>)>>
     ELSE <<>>)
    \o <<Line("decl", indent, componentDef.createCode, <<varName, parentVar>>),
         Call(indent, "lv_obj_set_pos",
              <<varName, Geometry(node.properties, <<"x">>, <<"0">>),
                         Geometry(node.properties, <<"y">>, <<"0">>)>>),
         Call(indent, "lv_obj_set_size",
              <<varName, Geometry(node.properties, <<"width">>, <<"100">>),
                         Geometry(node.properties, <<"height">>, <<"50">>)>>)>>
    \o PropertiesCode(node.type, varName, indent, node.properties)
    \o <<BlankLine>>

\* generateComponentCode returns the code and leaves the counter advanced:
\* [code, counter]
RECURSIVE generateComponentCode(_, _, _, _, _)
RECURSIVE ChildrenCode(_, _, _, _, _)
RECURSIVE UnknownCode(_, _, _, _, _)
ChildrenCode(children, parentVar, indent, comments, counter) ==
    IF children = <<>> THEN [code |-> <<>>, counter |-> counter]
    ELSE LET first == generateComponentCode(Head(children), parentVar, indent, comments, counter)
             rest  == ChildrenCode(Tail(children), parentVar, indent, comments, first.counter)
         IN  [code |-> first.code \o rest.code, counter |-> rest.counter]

\* (a slip: the children of an unknown node are hoisted to its parent)
UnknownCodeHoisting(node, parentVar, indent, comments, counter) ==
    LET kids == ChildrenCode(node.children, parentVar, indent, comments, counter)
    IN  [code    |-> <<Line("comment", indent, "Unknown component type", <<node.type>>)>>
                     \o kids.code,
         counter |-> kids.counter]

\* if (!componentDef) return the comment line
UnknownCode(node, parentVar, indent, comments, counter) ==
    [code    |-> <<Line("comment", indent, "Unknown component type", <<node.type>>)>>,
     counter |-> counter]

\* (a slip: the children are given the parent of the node as their parent)
generateComponentCodeFlat(node, parentVar, indent, comments, counter) ==
    LET componentDef == getComponentByType(node.type) IN
    IF componentDef = NoComponent
    THEN UnknownCode(node, parentVar, indent, comments, counter)
    ELSE LET varName == VarName(node, counter)
             kids    == ChildrenCode(node.children, parentVar, indent, comments,
                                     CounterAfterName(node, counter))
         IN  [code    |-> OwnCode(node, componentDef, varName, parentVar, indent, comments)
                          \o kids.code,
              counter |-> kids.counter]

generateComponentCode(node, parentVar, indent, comments, counter) ==
    LET componentDef == getComponentByType(node.type) IN
    IF componentDef = NoComponent
    THEN UnknownCode(node, parentVar, indent, comments, counter)
    ELSE LET varName == VarName(node, counter)
             kids    == ChildrenCode(node.children, varName, indent, comments,
                                     CounterAfterName(node, counter))
         IN  [code    |-> OwnCode(node, componentDef, varName, parentVar, indent, comments)
                          \o kids.code,
              counter |-> kids.counter]

\* (a slip: the counter is left as the last call left it)
CounterKept(counter) == counter

\* _componentCounter = 0 at the start of generateCode
CounterAtStart(counter) == 0

\* generateCode: the statements between `{` and `}` of <screen>_create, and
\* the counter as the call leaves it
generateCode(forest, comments, counter) ==
    ChildrenCode(forest, <<"parent">>, <<"    ">>, comments, CounterAtStart(counter))

----------------------------------------------------------------------------
(* The webview.  Its DOMParser reads well-formed XML only: one root         *)
(* element, matched tags, every attribute with a value and written once,   *)
(* the declaration at the very start; anything else is a parser error.     *)

\* an entry of a properties map
Prop(k, ty, s) == [k |-> k, v |-> PV(ty, s)]

DomElement(tagName, attributes, children) ==
    [tagName |-> tagName, attributes |-> attributes, children |-> children]

NoElement == DomElement(<<>>, <<>>, <<>>)

\* an attribute value as written: every & begins a reference that is known
RECURSIVE DomValueOk(_)
DomValueOk(raw) ==
    IF raw = <<>> THEN TRUE
    ELSE IF Head(raw) = "&"
         THEN Len(raw) >= 2 /\ raw[2] \in {"quot;", "amp;"} /\ DomValueOk(Tail(Tail(raw)))
         ELSE DomValueOk(Tail(raw))

\* the references of an attribute value, expanded
RECURSIVE DomValue(_)
DomValue(raw) ==
    IF Len(raw) < 2 THEN raw
    ELSE IF raw[1] = "&" /\ raw[2] = "quot;" THEN <<"\"">> \o DomValue(Tail(Tail(raw)))
    ELSE IF raw[1] = "&" /\ raw[2] = "amp;"  THEN <<"&">> \o DomValue(Tail(Tail(raw)))
    ELSE <<Head(raw)>> \o DomValue(Tail(raw))

DomAttributesOk(as) ==
    /\ \A i \in 1..Len(as) : as[i].has /\ DomValueOk(as[i].raw)
    /\ \A i, h \in 1..Len(as) : as[i].k = as[h].k => i = h

DomAttributes(as) == [i \in 1..Len(as) |-> [k |-> as[i].k, v |-> DomValue(as[i].raw)]]

\* element.getAttribute(name): null when there is no such attribute
GetAttribute(element, name) ==
    IF \E i \in 1..Len(element.attributes) : element.attributes[i].k = name
    THEN Str(element.attributes[CHOOSE i \in 1..Len(element.attributes) :
                                    element.attributes[i].k = name].v)
    ELSE Undefined

DomError == [error |-> TRUE, documentElement |-> NoElement]

\* the innermost open element is closed: it becomes the last child of the
\* element below it, or the document element
DomClose(stack, roots) ==
    LET n == Len(stack) IN
    IF n = 1 THEN [stack |-> <<>>, roots |-> Append(roots, stack[1])]
    ELSE [stack |-> Append(SubSeq(stack, 1, n - 2),
                           [stack[n - 1] EXCEPT !.children = Append(@, stack[n])]),
          roots |-> roots]

RECURSIVE parseFromString(_, _, _, _)
parseFromString(toks, i, stack, roots) ==
    IF i > Len(toks)
    THEN IF stack = <<>> /\ Len(roots) = 1
         THEN [error |-> FALSE, documentElement |-> roots[1]]
         ELSE DomError
    ELSE LET tk == toks[i] IN
         CASE tk.t = "ws"    -> parseFromString(toks, i + 1, stack, roots)
           [] tk.t = "cut"   -> DomError
           [] tk.t = "decl"  ->
                IF i = 1 /\ DomAttributesOk(tk.attrs)
                THEN parseFromString(toks, i + 1, stack, roots)
                ELSE DomError
           [] tk.t = "close" ->
                IF stack = <<>> \/ stack[Len(stack)].tagName # tk.tag
                THEN DomError
                ELSE LET c == DomClose(stack, roots)
                     IN  parseFromString(toks, i + 1, c.stack, c.roots)
           [] tk.t = "open"  ->
                IF ~DomAttributesOk(tk.attrs) \/ (stack = <<>> /\ roots # <<>>)
                THEN DomError
                ELSE parseFromString(toks, i + 1,
                        Append(stack, DomElement(tk.tag, DomAttributes(tk.attrs), <<>>)),
                        roots)
           [] tk.t = "empty" ->
                IF ~DomAttributesOk(tk.attrs) \/ (stack = <<>> /\ roots # <<>>)
                THEN DomError
                ELSE LET c == DomClose(Append(stack,
                                   DomElement(tk.tag, DomAttributes(tk.attrs), <<>>)), roots)
                     IN  parseFromString(toks, i + 1, c.stack, c.roots)

\* 'node_' + Date.now() + '_' + Math.random().toString(36).slice(2, 11): the
\* k-th identifier the webview makes
generateId(k) == <<"node_", "<now>", "_", ToString(k)>>

\* the decimal integers from -99 to 999, as texts and as numbers
DecimalTexts == {ToString(n) : n \in (0 - 99)..999}

DecimalValue == [t \in DecimalTexts |-> CHOOSE n \in (0 - 99)..999 : ToString(n) = t]

\* Number(value) of a text: the decimal integers as they are, other numeric
\* spellings in their shortest form, blank text 0
Number(value) ==
    LET t == Trim(value) IN
    IF t = <<>> THEN <<"0">>
    ELSE IF Len(t) = 1 /\ t[1] \in DecimalTexts THEN t
    ELSE IF t = <<"1.0">> THEN <<"1">>
    ELSE IF t = <<"Infinity">> THEN t
    ELSE <<"NaN">>

\* 'true' and 'false' become booleans, numeric text a number
Coerce(value) ==
    IF value = <<"true">> THEN PV("boolean", <<"true">>)
    ELSE IF value = <<"false">> THEN PV("boolean", <<"false">>)
    ELSE IF Number(value) # <<"NaN">> /\ value # <<>> THEN PV("number", Number(value))
    ELSE PV("string", value)

RECURSIVE WebviewProperties(_, _)
WebviewProperties(attributes, acc) ==
    IF attributes = <<>> THEN acc
    ELSE LET attr == Head(attributes) IN
         IF attr.k # <<"id">> /\ attr.k # <<"name">>
         THEN WebviewProperties(Tail(attributes), Put(acc, attr.k, Coerce(attr.v)))
         ELSE WebviewProperties(Tail(attributes), acc)

\* parseXmlChildren(parent), with the count of the identifiers made so far:
\* [nodes, generated]
RECURSIVE parseXmlChildren(_, _, _)
parseXmlChildren(children, i, generated) ==
    IF i > Len(children) THEN [nodes |-> <<>>, generated |-> generated]
    ELSE LET child == children[i]
             idv   == GetAttribute(child, <<"id">>)
             namev == GetAttribute(child, <<"name">>)
             made  == IF Truthy(idv) THEN generated ELSE generated + 1
             kids  == parseXmlChildren(child.children, 1, made)
             node  == LvglNode(IF Truthy(idv) THEN idv.s ELSE generateId(made),
                               <<"lv_">> \o child.tagName,
                               IF Truthy(namev) THEN namev.s ELSE child.tagName,
                               WebviewProperties(child.attributes, <<>>),
                               kids.nodes)
             rest  == parseXmlChildren(children, i + 1, kids.generated)
         IN  [nodes |-> <<node>> \o rest.nodes, generated |-> rest.generated]

\* content.trim() === ''
WhitespaceText(content) == \A i \in 1..Len(content) : content[i].t = "ws"

\* the webview's parseXml(content)
webviewParseXml(content, generated) ==
    IF content = <<>> \/ WhitespaceText(content)
    THEN [nodes |-> <<>>, generated |-> generated]
    ELSE LET doc == parseFromString(content, 1, <<>>, <<>>) IN
         IF doc.error THEN [nodes |-> <<>>, generated |-> generated]
         ELSE parseXmlChildren(doc.documentElement.children, 1, generated)

RECURSIVE CountNodes(_)
CountNodes(forest) ==
    IF forest = <<>> THEN 0
    ELSE 1 + CountNodes(Head(forest).children) + CountNodes(Tail(forest))

\* every node of a forest, in depth-first document order
RECURSIVE AllNodes(_)
AllNodes(forest) ==
    IF forest = <<>> THEN <<>>
    ELSE <<Head(forest)>> \o AllNodes(Head(forest).children) \o AllNodes(Tail(forest))

\* null, for selectedNodeId and for what findNode did not find
Null == <<>>

NoNode == LvglNode(Null, <<>>, <<>>, <<>>, <<>>)

\* the first node with the id, in depth-first order
RECURSIVE findNode(_, _)
findNode(nodeId, nodeList) ==
    IF nodeList = <<>> THEN NoNode
    ELSE IF Head(nodeList).id = nodeId THEN Head(nodeList)
    ELSE LET found == findNode(nodeId, Head(nodeList).children) IN
         IF found # NoNode THEN found ELSE findNode(nodeId, Tail(nodeList))

\* the node findNode finds, changed in place: [list, found]
RECURSIVE ReplaceNode(_, _, _)
ReplaceNode(nodeList, nodeId, new) ==
    IF nodeList = <<>> THEN [list |-> <<>>, found |-> FALSE]
    ELSE LET node == Head(nodeList) IN
         IF node.id = nodeId THEN [list |-> <<new>> \o Tail(nodeList), found |-> TRUE]
         ELSE LET below == ReplaceNode(node.children, nodeId, new) IN
              IF below.found
              THEN [list  |-> <<[node EXCEPT !.children = below.list]>> \o Tail(nodeList),
                    found |-> TRUE]
              ELSE LET rest == ReplaceNode(Tail(nodeList), nodeId, new)
                   IN  [list |-> <<node>> \o rest.list, found |-> rest.found]

\* (a slip: the children of the node are left in its place)
RECURSIVE deleteNodeOnly(_, _)
deleteNodeOnly(nodeId, nodeList) ==
    IF nodeList = <<>> THEN [list |-> <<>>, found |-> FALSE]
    ELSE LET node == Head(nodeList) IN
         IF node.id = nodeId THEN [list |-> node.children \o Tail(nodeList), found |-> TRUE]
         ELSE LET below == deleteNodeOnly(nodeId, node.children) IN
              IF below.found
              THEN [list  |-> <<[node EXCEPT !.children = below.list]>> \o Tail(nodeList),
                    found |-> TRUE]
              ELSE LET rest == deleteNodeOnly(nodeId, Tail(nodeList))
                   IN  [list |-> <<node>> \o rest.list, found |-> rest.found]

\* deleteNode: the first node with the id is spliced out: [list, found]
RECURSIVE deleteNode(_, _)
deleteNode(nodeId, nodeList) ==
    IF nodeList = <<>> THEN [list |-> <<>>, found |-> FALSE]
    ELSE LET node == Head(nodeList) IN
         IF node.id = nodeId THEN [list |-> Tail(nodeList), found |-> TRUE]
         ELSE LET below == deleteNode(nodeId, node.children) IN
              IF below.found
              THEN [list  |-> <<[node EXCEPT !.children = below.list]>> \o Tail(nodeList),
                    found |-> TRUE]
              ELSE LET rest == deleteNode(nodeId, Tail(nodeList))
                   IN  [list |-> <<node>> \o rest.list, found |-> rest.found]

\* (a slip: the default of name is copied with the others)
RECURSIVE CopyDefaultsAll(_, _)
CopyDefaultsAll(props, acc) ==
    IF props = <<>> THEN acc
    ELSE CopyDefaultsAll(Tail(props), Put(acc, Head(props).name, Head(props).default))

\* the default of every property but name, copied in the order of the list
RECURSIVE CopyDefaults(_, _)
CopyDefaults(props, acc) ==
    IF props = <<>> THEN acc
    ELSE IF Head(props).name # <<"name">>
         THEN CopyDefaults(Tail(props), Put(acc, Head(props).name, Head(props).default))
         ELSE CopyDefaults(Tail(props), acc)

\* the node the drop handler makes of the dragged component
DroppedNode(component, x, y, count, id) ==
    LvglNode(id,
             component.type,
             ReplaceFirst(component.type, "lv_", <<>>) \o <<"_", ToString(count + 1)>>,
             CopyDefaults(componentProperties(component.type),
                          <<Prop(<<"x">>, "number", x), Prop(<<"y">>, "number", y),
                            Prop(<<"width">>, "number", <<"100">>),
                            Prop(<<"height">>, "number", <<"50">>)>>),
             <<>>)

\* JSON.parse(JSON.stringify(node)): a number that is not finite comes back null
RECURSIVE JsonClone(_)
RECURSIVE JsonCloneAll(_)
JsonClone(node) ==
    [node EXCEPT
        !.properties = [i \in 1..Len(node.properties) |->
                          LET p == node.properties[i] IN
                          IF p.v.ty = "number" /\ p.v.s \in {<<"NaN">>, <<"Infinity">>}
                          THEN [k |-> p.k, v |-> PV("object", <<"null">>)]
                          ELSE p],
        !.children = JsonCloneAll(node.children)]
JsonCloneAll(nodeList) ==
    IF nodeList = <<>> THEN <<>>
    ELSE <<JsonClone(Head(nodeList))>> \o JsonCloneAll(Tail(nodeList))

\* (node.properties[k] || 0) + 20
PlusTwenty(properties, k) ==
    IF ~(\E i \in 1..Len(properties) : properties[i].k = k)
    THEN PV("number", <<"20">>)
    ELSE LET v == properties[CHOOSE i \in 1..Len(properties) : properties[i].k = k].v IN
         CASE v.ty = "number" ->
                IF v.s \in {<<"0">>, <<"NaN">>} THEN PV("number", <<"20">>)
                ELSE IF v.s = <<"Infinity">> THEN v
                ELSE PV("number",
                        <<ToString(DecimalValue[v.s[1]] + 20)>>)
           [] v.ty = "boolean" ->
                IF v.s = <<"true">> THEN PV("number", <<"21">>) ELSE PV("number", <<"20">>)
           [] v.ty = "string" ->
                IF v.s = <<>> THEN PV("number", <<"20">>) ELSE PV("string", v.s \o <<"20">>)
           [] OTHER -> PV("number", <<"20">>)

\* (a slip: the nodes below keep the ids of the original)
updateChildIdsKept(children, generated) == [nodes |-> children, generated |-> generated]

\* updateChildIds: a new id for every node below, in depth-first order:
\* [nodes, generated]
RECURSIVE updateChildIds(_, _)
updateChildIds(children, generated) ==
    IF children = <<>> THEN [nodes |-> <<>>, generated |-> generated]
    ELSE LET child == Head(children)
             below == updateChildIds(child.children, generated + 1)
             rest  == updateChildIds(Tail(children), below.generated)
         IN  [nodes |-> <<[child EXCEPT !.id = generateId(generated + 1),
                                        !.children = below.nodes]>> \o rest.nodes,
              generated |-> rest.generated]

\* the copy the duplicate handler makes of a node
DuplicatedNode(node, generated) ==
    LET copy  == JsonClone(node)
        below == updateChildIds(copy.children, generated + 1)
    IN  [nodes |-> <<LvglNode(generateId(generated + 1),
                              copy.type,
                              node.name \o <<"_copy">>,
                              Put(Put(copy.properties, <<"x">>, PlusTwenty(node.properties, <<"x">>)),
                                  <<"y">>, PlusTwenty(node.properties, <<"y">>)),
                              below.nodes)>>,
         generated |-> below.generated]

\* what a change event of the input of a property gives
ChangedValue(prop, text, checked) ==
    CASE prop.type = "boolean" -> PV("boolean", IF checked THEN <<"true">> ELSE <<"false">>)
      [] prop.type = "number"  -> PV("number", Number(text))
      [] OTHER                 -> PV("string", text)

\* node.name = value, or node.properties[propName] = value
ChangedNode(node, propName, value) ==
    IF propName = <<"name">>
    THEN [node EXCEPT !.name = value.s]
    ELSE [node EXCEPT !.properties = Put(@, propName, value)]

\* updateXml: the text the webview posts to the extension (the webview's
\* nodesToXml and nodeToXml are those of the extension, word for word)
updateXml(forest) == nodesToXml(forest)

----------------------------------------------------------------------------
(* Inputs *)

MaxBody == 3
MaxTop  == 2

\* all sequences over S of length at most n
RECURSIVE SeqsUpTo(_, _)
SeqsUpTo(S, n) ==
    IF n = 0 THEN {<<>>}
    ELSE LET shorter == SeqsUpTo(S, n - 1)
         IN  shorter \cup {Append(q, x) : q \in {r \in shorter : Len(r) = n - 1}, x \in S}

OpenRoot  == OpenTok(<<"lvgl">>, <<Attr(<<"version">>, <<"1.0">>)>>)
CloseRoot == CloseTok(<<"lvgl">>)

TitleLabel ==
    EmptyTok(<<"label">>, <<Attr(<<"id">>, <<"t">>), Attr(<<"name">>, <<"title">>),
                            Attr(<<"text">>, <<"Hi">>)>>)
BareBtn == EmptyTok(<<"btn">>, <<>>)
CheckedSwitch ==
    EmptyTok(<<"switch">>, <<Attr(<<"id">>, <<"s">>), BoolAttr(<<"checked">>),
                             Attr(<<"x">>, <<"10">>)>>)
EntityLabel ==
    EmptyTok(<<"label">>, <<Attr(<<"text">>, <<"&", "amp;", "amp;">>),
                            Attr(<<"placeholder">>, <<"&", "quot;", "q">>),
                            Attr(<<"wrap">>, <<"true">>)>>)

BodyToks ==
    { TitleLabel, BareBtn, CheckedSwitch, EntityLabel,
      OpenTok(<<"btn">>, <<Attr(<<"id">>, <<"b">>)>>), CloseTok(<<"btn">>),
      OpenTok(<<"lv_", "obj">>, <<>>),
      WsTok(<<"\n", "  ">>), CutTok(<<"label">>) }

Prologues == { <<>>, <<OpenRoot>>, <<DeclTok, WsTok(<<"\n">>), OpenRoot>> }
Epilogues == { <<>>, <<CloseRoot>> }

Docs == { p \o b \o e : p \in Prologues, b \in SeqsUpTo(BodyToks, MaxBody), e \in Epilogues }

UnnamedLabel == LvglNode(<<"n1">>, <<"lv_", "label">>, <<>>, <<>>, <<>>)
NamedLabel ==
    LvglNode(<<"n2">>, <<"lv_", "label">>, <<"title">>,
             <<Prop(<<"text">>, "string", <<"Hi">>)>>, <<>>)
SwitchNode ==
    LvglNode(<<"n3">>, <<"lv_", "switch">>, <<"sw">>,
             <<Prop(<<"checked">>, "boolean", <<"true">>),
               Prop(<<"x">>, "number", <<"10">>), Prop(<<"y">>, "number", <<"20">>)>>, <<>>)
SizedLabel ==
    LvglNode(<<"n4">>, <<"lv_", "label">>, <<>>,
             <<Prop(<<"long_mode">>, "string", <<"dot">>),
               Prop(<<"height">>, "number", <<"30">>)>>, <<>>)
UnnamedObj ==
    LvglNode(<<"n5">>, <<"lv_", "obj">>, <<>>,
             <<Prop(<<"width">>, "number", <<"200">>),
               Prop(<<"bg_", "color">>, "string", <<"#", "112233">>)>>,
             <<UnnamedLabel>>)
UnknownLeaf == LvglNode(<<"n6">>, <<"lv_", "foo">>, <<>>, <<>>, <<>>)
UnknownTree ==
    LvglNode(<<"n7">>, <<"lv_", "foo">>, <<"f">>,
             <<Prop(<<"x">>, "number", <<"1">>), Prop(<<"text">>, "string", <<"t">>)>>,
             <<NamedLabel, UnnamedObj>>)
NamedObj ==
    LvglNode(<<"n8">>, <<"lv_", "obj">>, <<"box">>, <<>>, <<UnknownLeaf, UnnamedLabel>>)

EmitTrees ==
    { UnnamedLabel, NamedLabel, SwitchNode, SizedLabel,
      UnnamedObj, UnknownLeaf, UnknownTree, NamedObj }

EmitForests == SeqsUpTo(EmitTrees, MaxTop)

CounterTrees == { UnnamedLabel, NamedLabel, UnnamedObj }

CounterForests == SeqsUpTo(CounterTrees, MaxTop)

----------------------------------------------------------------------------
(* Spec: a document is parsed, then either serialized, parsed again and    *)
(* serialized again, or handed to the emitter.                             *)

Init ==
    /\ xmlContent \in Docs
    /\ pc = "doc"
    /\ nodes = <<>> /\ xmlOut = <<>> /\ nodes2 = <<>> /\ xmlOut2 = <<>>
    /\ _componentCounter = 0
    /\ rootNodes = <<>> /\ generateComments = FALSE /\ sourceContent = <<>>
    /\ firstNodes = <<>> /\ firstComments = FALSE /\ firstContent = <<>>
    /\ between = FALSE
    /\ selectedNodeId = Null /\ draggedComponent = NoComponent /\ generatedIds = 0
    /\ NotActivated
    /\ Quiet

ParseDocument ==
    /\ pc = "doc"
    /\ nodes' = parseXmlToNodes(xmlContent)
    /\ pc' = "parsed"
    /\ UNCHANGED <<xmlContent, xmlOut, nodes2, xmlOut2, _componentCounter, rootNodes,
                   generateComments, sourceContent, firstNodes, firstComments, firstContent, between>>
    /\ UNCHANGED editorVars
    /\ UNCHANGED extensionVars
    /\ UNCHANGED syncVars

SerializeNodes ==
    /\ pc = "parsed"
    /\ xmlOut' = nodesToXml(nodes)
    /\ pc' = "serialized"
    /\ UNCHANGED <<xmlContent, nodes, nodes2, xmlOut2, _componentCounter, rootNodes,
                   generateComments, sourceContent, firstNodes, firstComments, firstContent, between>>
    /\ UNCHANGED editorVars
    /\ UNCHANGED extensionVars
    /\ UNCHANGED syncVars

ParseAgain ==
    /\ pc = "serialized"
    /\ nodes2' = parseXmlToNodes(xmlOut)
    /\ pc' = "reparsed"
    /\ UNCHANGED <<xmlContent, nodes, xmlOut, xmlOut2, _componentCounter, rootNodes,
                   generateComments, sourceContent, firstNodes, firstComments, firstContent, between>>
    /\ UNCHANGED editorVars
    /\ UNCHANGED extensionVars
    /\ UNCHANGED syncVars

SerializeAgain ==
    /\ pc = "reparsed"
    /\ xmlOut2' = nodesToXml(nodes2)
    /\ pc' = "reserialized"
    /\ UNCHANGED <<xmlContent, nodes, xmlOut, nodes2, _componentCounter, rootNodes,
                   generateComments, sourceContent, firstNodes, firstComments, firstContent, between>>
    /\ UNCHANGED editorVars
    /\ UNCHANGED extensionVars
    /\ UNCHANGED syncVars

GenerateFromDocument ==
    /\ pc = "parsed"
    /\ \E comments \in BOOLEAN :
         LET out == generateCode(nodes, comments, _componentCounter) IN
         /\ rootNodes' = nodes
         /\ generateComments' = comments
         /\ sourceContent' = out.code
         /\ _componentCounter' = out.counter
    /\ pc' = "generated"
    /\ UNCHANGED <<xmlContent, nodes, xmlOut, nodes2, xmlOut2, firstNodes, firstComments, firstContent, between>>
    /\ UNCHANGED editorVars
    /\ UNCHANGED extensionVars
    /\ UNCHANGED syncVars

Next ==
    \/ ParseDocument
    \/ SerializeNodes
    \/ ParseAgain
    \/ SerializeAgain
    \/ GenerateFromDocument

Spec == Init /\ [][Next]_vars

----------------------------------------------------------------------------
(* SpecEmit: generateCode applied once to a forest given directly *)

InitEmit ==
    /\ rootNodes \in EmitForests
    /\ generateComments \in BOOLEAN
    /\ pc = "args"
    /\ _componentCounter = 0
    /\ sourceContent = <<>>
    /\ xmlContent = <<>> /\ nodes = <<>> /\ xmlOut = <<>> /\ nodes2 = <<>> /\ xmlOut2 = <<>>
    /\ firstNodes = <<>> /\ firstComments = FALSE /\ firstContent = <<>>
    /\ between = FALSE
    /\ selectedNodeId = Null /\ draggedComponent = NoComponent /\ generatedIds = 0
    /\ NotActivated
    /\ Quiet

Emit ==
    /\ pc = "args"
    /\ LET out == generateCode(rootNodes, generateComments, _componentCounter) IN
         /\ sourceContent' = out.code
         /\ _componentCounter' = out.counter
    /\ pc' = "emitted"
    /\ UNCHANGED <<xmlContent, nodes, xmlOut, nodes2, xmlOut2, rootNodes,
                   generateComments, firstNodes, firstComments, firstContent, between>>
    /\ UNCHANGED editorVars
    /\ UNCHANGED extensionVars
    /\ UNCHANGED syncVars

NextEmit == Emit

SpecEmit == InitEmit /\ [][NextEmit]_vars

----------------------------------------------------------------------------
(* SpecCounter: generateCode called again and again in one process; the    *)
(* arguments and the result of the first call are remembered, and whether  *)
(* a call on another forest came after it.                                 *)

InitCounter ==
    /\ pc = "idle"
    /\ _componentCounter = 0
    /\ rootNodes = <<>> /\ generateComments = FALSE /\ sourceContent = <<>>
    /\ firstNodes = <<>> /\ firstComments = FALSE /\ firstContent = <<>>
    /\ between = FALSE
    /\ xmlContent = <<>> /\ nodes = <<>> /\ xmlOut = <<>> /\ nodes2 = <<>> /\ xmlOut2 = <<>>
    /\ selectedNodeId = Null /\ draggedComponent = NoComponent /\ generatedIds = 0
    /\ NotActivated
    /\ Quiet

FirstCall ==
    /\ pc = "idle"
    /\ \E forest \in CounterForests, comments \in BOOLEAN :
         LET out == generateCode(forest, comments, _componentCounter) IN
         /\ rootNodes' = forest
         /\ generateComments' = comments
         /\ sourceContent' = out.code
         /\ _componentCounter' = out.counter
         /\ firstNodes' = forest
         /\ firstComments' = comments
         /\ firstContent' = out.code
    /\ pc' = "called"
    /\ UNCHANGED <<xmlContent, nodes, xmlOut, nodes2, xmlOut2, between>>
    /\ UNCHANGED editorVars
    /\ UNCHANGED extensionVars
    /\ UNCHANGED syncVars

LaterCall ==
    /\ pc = "called"
    /\ \E forest \in CounterForests, comments \in BOOLEAN :
         LET out == generateCode(forest, comments, _componentCounter) IN
         /\ rootNodes' = forest
         /\ generateComments' = comments
         /\ sourceContent' = out.code
         /\ _componentCounter' = out.counter
         /\ between' = (between \/ forest # firstNodes)
    /\ UNCHANGED <<xmlContent, nodes, xmlOut, nodes2, xmlOut2,
                   firstNodes, firstComments, firstContent, pc>>
    /\ UNCHANGED editorVars
    /\ UNCHANGED extensionVars
    /\ UNCHANGED syncVars

NextCounter == FirstCall \/ LaterCall

SpecCounter == InitCounter /\ [][NextCounter]_vars

----------------------------------------------------------------------------
(* SpecProperty: generateCode applied to one node of a kind with one       *)
(* property of a name and a value: every kind of the registry and one      *)
(* unknown kind, every property name of the registry and two others.       *)

PropertyNames ==
    { <<"x">>, <<"y">>, <<"width">>, <<"height">>, <<"bg_", "color">>,
      <<"bg_opa">>, <<"border_", "color">>, <<"border_width">>, <<"radius">>,
      <<"pad_top">>, <<"pad_bottom">>, <<"pad_left">>, <<"pad_right">>,
      <<"layout">>, <<"flex_flow">>, <<"flex_main_place">>,
      <<"flex_cross_place">>, <<"flex_track_place">>, <<"pad_row">>,
      <<"pad_column">>, <<"name">>, <<"text">>, <<"long_mode">>,
      <<"text_", "color">>, <<"map">>, <<"one_checked">>, <<"src">>,
      <<"zoom">>, <<"angle">>, <<"line_", "color">>, <<"line_width">>,
      <<"start_angle">>, <<"end_angle">>, <<"bg_start_angle">>,
      <<"bg_end_angle">>, <<"value">>, <<"min">>, <<"max">>, <<"mode">>,
      <<"checked">>, <<"options">>, <<"selected">>, <<"dir">>,
      <<"visible_row_count">>, <<"placeholder">>, <<"one_line">>,
      <<"password_mode">>, <<"max_length">>, <<"row_count">>,
      <<"col_count">>, <<"type">>, <<"point_count">>, <<"range_min">>,
      <<"range_max">>, <<"today_year">>, <<"today_month">>, <<"today_day">>,
      <<"title">>, <<"close_button">>, <<"step">>, <<"digit_count">>,
      <<"separator_position">>, <<"time">>, <<"arc_length">>, <<"tab_pos">>,
      <<"tab_size">>, <<"header_height">>, <<"duration">>,
      <<"repeat_count">>, <<"src_left">>, <<"src_mid">>, <<"src_right">>,
      <<"brightness">>, <<"color">>, <<"mode_header">>,
      <<"mode_root_back_btn">>, <<"total_tick_count">>,
      <<"major_tick_every">>, <<"align">>, <<"overflow">>, <<"indent">>,
      <<"mode_fixed">>, <<"id">>, <<"foo">> }

PropertyKinds == { lvglComponents[i].type : i \in 1..Len(lvglComponents) } \cup { <<"lv_", "foo">> }

PropertyValues ==
    { PV("boolean", <<"true">>), PV("boolean", <<"false">>),
      PV("number", <<"0">>), PV("number", <<"7">>),
      PV("string", <<>>), PV("string", <<"Hi">>), PV("string", <<"dot">>),
      PV("string", <<"flex">>), PV("string", <<"#", "112233">>),
      PV("string", <<"a", "\"", "b", "\\", "c">>) }

InitProperty ==
    /\ \E type \in PropertyKinds, propName \in PropertyNames, value \in PropertyValues :
         rootNodes = <<LvglNode(<<"n">>, type, <<"w">>, <<[k |-> propName, v |-> value]>>, <<>>)>>
    /\ generateComments \in BOOLEAN
    /\ pc = "args"
    /\ _componentCounter = 0
    /\ sourceContent = <<>>
    /\ xmlContent = <<>> /\ nodes = <<>> /\ xmlOut = <<>> /\ nodes2 = <<>> /\ xmlOut2 = <<>>
    /\ firstNodes = <<>> /\ firstComments = FALSE /\ firstContent = <<>>
    /\ between = FALSE
    /\ selectedNodeId = Null /\ draggedComponent = NoComponent /\ generatedIds = 0
    /\ NotActivated
    /\ Quiet

SpecProperty == InitProperty /\ [][NextEmit]_vars

----------------------------------------------------------------------------
(* SpecEditor: the webview is given the text of a document and the user    *)
(* edits the forest: components are dragged from the palette and dropped,  *)
(* nodes are selected, changed in the properties panel, duplicated and     *)
(* deleted.  xmlOut is the text updateXml posted last.                     *)

MaxNodes     == 3
MaxGenerated == 3

EditorDocs ==
    { <<>>,
      <<DeclTok, WsTok(<<"\n">>), OpenRoot, WsTok(<<"\n">>),
        OpenTok(<<"btn">>, <<Attr(<<"id">>, <<"b">>), Attr(<<"name">>, <<"ok">>),
                             Attr(<<"x">>, <<"10">>)>>),
        EmptyTok(<<"label">>, <<Attr(<<"text">>, <<"Hi">>)>>),
        CloseTok(<<"btn">>), WsTok(<<"\n">>), CloseRoot, WsTok(<<"\n">>)>> }

\* the components dragged from the palette
Palette == { c \in Range(lvglComponents) :
               c.type \in {<<"lv_", "label">>, <<"lv_", "switch">>} }

DropPositions == { <<"12">>, <<"40">> }

\* the inputs of the properties panel that are changed
EditedProps == { <<"name">>, <<"checked">> }

\* the values that an input of the type can be given
InputTexts(prop) ==
    CASE prop.type = "number"  -> { <<"7">> }
      [] prop.type = "boolean" -> { <<"on">> }
      [] prop.type = "color"   -> { <<"#", "112233">> }
      [] prop.type = "select"  -> Range(prop.options)
      [] OTHER                 -> { <<"Hi">> }

InitEditor ==
    /\ xmlContent \in EditorDocs
    /\ pc = "ready"
    /\ nodes = <<>> /\ selectedNodeId = Null /\ draggedComponent = NoComponent
    /\ generatedIds = 0
    /\ NotActivated
    /\ Quiet
    /\ xmlOut = <<>> /\ nodes2 = <<>> /\ xmlOut2 = <<>>
    /\ _componentCounter = 0
    /\ rootNodes = <<>> /\ generateComments = FALSE /\ sourceContent = <<>>
    /\ firstNodes = <<>> /\ firstComments = FALSE /\ firstContent = <<>>
    /\ between = FALSE

hostVars == <<xmlContent, nodes2, xmlOut2, _componentCounter, rootNodes, generateComments,
              sourceContent, firstNodes, firstComments, firstContent, between>>

\* the message 'init': nodes = parseXml(message.content)
ReceiveInit ==
    /\ pc = "ready"
    /\ LET parsed == webviewParseXml(xmlContent, generatedIds) IN
         /\ nodes' = parsed.nodes
         /\ generatedIds' = parsed.generated
    /\ pc' = "editing"
    /\ UNCHANGED <<selectedNodeId, draggedComponent, xmlOut>>
    /\ UNCHANGED hostVars
    /\ UNCHANGED extensionVars
    /\ UNCHANGED syncVars

\* dragstart of a palette item
DragStartOf(palette) ==
    /\ pc = "editing"
    /\ \E comp \in palette : draggedComponent' = comp
    /\ UNCHANGED <<nodes, selectedNodeId, generatedIds, xmlOut, pc>>
    /\ UNCHANGED hostVars
    /\ UNCHANGED extensionVars
    /\ UNCHANGED syncVars

DragStart == DragStartOf(Palette)

\* drop on the canvas, while the forest and the ids stay within the bounds
DropWithin(maxNodes, maxGenerated) ==
    /\ pc = "editing"
    /\ draggedComponent # NoComponent
    /\ CountNodes(nodes) < maxNodes
    /\ generatedIds < maxGenerated
    /\ \E x \in DropPositions, y \in DropPositions :
         LET newNode == DroppedNode(draggedComponent, x, y, Len(nodes), generateId(generatedIds + 1))
         IN  /\ nodes' = Append(nodes, newNode)
             /\ selectedNodeId' = newNode.id
    /\ generatedIds' = generatedIds + 1
    /\ draggedComponent' = NoComponent
    /\ xmlOut' = updateXml(nodes')
    /\ UNCHANGED pc
    /\ UNCHANGED hostVars
    /\ UNCHANGED extensionVars
    /\ UNCHANGED syncVars

Drop == DropWithin(MaxNodes, MaxGenerated)

\* a click on a node of the canvas or of the hierarchy
SelectNode ==
    /\ pc = "editing"
    /\ \E i \in 1..Len(AllNodes(nodes)) : selectedNodeId' = AllNodes(nodes)[i].id
    /\ UNCHANGED <<nodes, draggedComponent, generatedIds, xmlOut, pc>>
    /\ UNCHANGED hostVars
    /\ UNCHANGED extensionVars
    /\ UNCHANGED syncVars

\* a click on the empty canvas
CanvasClick ==
    /\ pc = "editing"
    /\ selectedNodeId' = Null
    /\ UNCHANGED <<nodes, draggedComponent, generatedIds, xmlOut, pc>>
    /\ UNCHANGED hostVars
    /\ UNCHANGED extensionVars
    /\ UNCHANGED syncVars

\* a change event in the properties panel of the selected node
ChangeProperty ==
    /\ pc = "editing"
    /\ selectedNodeId # Null
    /\ LET node == findNode(selectedNodeId, nodes)
           comp == getComponentByType(node.type)
       IN  /\ node # NoNode
           /\ comp # NoComponent
           /\ \E h \in 1..Len(componentProperties(comp.type)) :
                LET prop == componentProperties(comp.type)[h] IN
                /\ prop.name \in EditedProps
                /\ \E text \in InputTexts(prop), checked \in BOOLEAN :
                     nodes' = ReplaceNode(nodes, selectedNodeId,
                                  ChangedNode(node, prop.name,
                                              ChangedValue(prop, text, checked))).list
    /\ xmlOut' = updateXml(nodes')
    /\ UNCHANGED <<selectedNodeId, draggedComponent, generatedIds, pc>>
    /\ UNCHANGED hostVars
    /\ UNCHANGED extensionVars
    /\ UNCHANGED syncVars

\* the duplicate button, while the forest and the ids stay within the bounds
DuplicateWithin(maxNodes, maxGenerated) ==
    /\ pc = "editing"
    /\ selectedNodeId # Null
    /\ LET node == findNode(selectedNodeId, nodes) IN
       /\ node # NoNode
       /\ CountNodes(nodes) + CountNodes(<<node>>) <= maxNodes
       /\ generatedIds + CountNodes(<<node>>) <= maxGenerated
       /\ LET made == DuplicatedNode(node, generatedIds) IN
            /\ nodes' = nodes \o made.nodes
            /\ selectedNodeId' = made.nodes[1].id
            /\ generatedIds' = made.generated
    /\ xmlOut' = updateXml(nodes')
    /\ UNCHANGED <<draggedComponent, pc>>
    /\ UNCHANGED hostVars
    /\ UNCHANGED extensionVars
    /\ UNCHANGED syncVars

Duplicate == DuplicateWithin(MaxNodes, MaxGenerated)

\* the delete button
Delete ==
    /\ pc = "editing"
    /\ selectedNodeId # Null
    /\ nodes' = deleteNode(selectedNodeId, nodes).list
    /\ selectedNodeId' = Null
    /\ xmlOut' = updateXml(nodes')
    /\ UNCHANGED <<draggedComponent, generatedIds, pc>>
    /\ UNCHANGED hostVars
    /\ UNCHANGED extensionVars
    /\ UNCHANGED syncVars

NextEditor ==
    \/ ReceiveInit
    \/ DragStart
    \/ Drop
    \/ SelectNode
    \/ CanvasClick
    \/ ChangeProperty
    \/ Duplicate
    \/ Delete

SpecEditor == InitEditor /\ [][NextEditor]_vars

----------------------------------------------------------------------------
(* SpecExtension: the extension in its host.  It is activated once; the    *)
(* two commands are then invoked in any order and with any argument while  *)
(* the active text editor changes; the host disposes the subscriptions     *)
(* when the extension is deactivated.                                      *)

MaxMessages == 3

\* LvglEditorProvider.viewType
viewType == "tlcsdm.lvglBuilder.editor"

OpenEditorId == "tlcsdm.lvglBuilder.openEditor"

GenerateCodeId == "tlcsdm.lvglBuilder.generateCode"

\* what registerCustomEditorProvider and registerCommand return
Disposable(kind, id) == [kind |-> kind, id |-> id]

\* String.prototype.endsWith, for a suffix that is one chunk
EndsWith(s, c) == s # <<>> /\ s[Len(s)] = c

\* the files of the workspace, by name
Files == { <<"ui", ".xml">>, <<"notes", ".txt">> }

\* the command is invoked without an argument
NoUri == <<>>

Warning(text) == [severity |-> "warning", text |-> text]

Information(text) == [severity |-> "information", text |-> text]

InitExtension ==
    /\ activation = "installed"
    /\ subscriptions = <<>> /\ commands = {} /\ customEditors = {}
    /\ activeTextEditor \in Files \cup {NoTextEditor}
    /\ shownMessages = <<>> /\ openedWith = {}
    /\ documentUri = NoDocument /\ writtenFiles = <<>>
    /\ Quiet
    /\ pc = "idle"
    /\ xmlContent = <<>> /\ nodes = <<>> /\ xmlOut = <<>> /\ nodes2 = <<>> /\ xmlOut2 = <<>>
    /\ _componentCounter = 0
    /\ rootNodes = <<>> /\ generateComments = FALSE /\ sourceContent = <<>>
    /\ firstNodes = <<>> /\ firstComments = FALSE /\ firstContent = <<>>
    /\ between = FALSE
    /\ selectedNodeId = Null /\ draggedComponent = NoComponent /\ generatedIds = 0

documentVars == <<xmlContent, nodes, xmlOut, nodes2, xmlOut2, pc, _componentCounter,
                  rootNodes, generateComments, sourceContent, firstNodes, firstComments,
                  firstContent, between>>

\* (a slip: the second command is not registered)
ActivateWithoutGenerateCode ==
    /\ activation = "installed"
    /\ activation' = "active"
    /\ customEditors' = customEditors \cup {viewType}
    /\ commands' = commands \cup {OpenEditorId}
    /\ subscriptions' = subscriptions
                         \o <<Disposable("customEditor", viewType),
                              Disposable("command", OpenEditorId)>>
    /\ UNCHANGED <<activeTextEditor, shownMessages, openedWith>>
    /\ UNCHANGED documentVars /\ UNCHANGED editorVars /\ UNCHANGED fileVars
    /\ UNCHANGED syncVars

\* activate(context)
Activate ==
    /\ activation = "installed"
    /\ activation' = "active"
    /\ customEditors' = customEditors \cup {viewType}
    /\ commands' = commands \cup {OpenEditorId, GenerateCodeId}
    /\ subscriptions' = subscriptions
                         \o <<Disposable("customEditor", viewType),
                              Disposable("command", OpenEditorId),
                              Disposable("command", GenerateCodeId)>>
    /\ UNCHANGED <<activeTextEditor, shownMessages, openedWith>>
    /\ UNCHANGED documentVars /\ UNCHANGED editorVars /\ UNCHANGED fileVars
    /\ UNCHANGED syncVars

\* the handler of tlcsdm.lvglBuilder.openEditor
OpenEditorCommand ==
    /\ OpenEditorId \in commands
    /\ \E uri \in Files \cup {NoUri} :
         IF uri = NoUri /\ ~(activeTextEditor # NoTextEditor
                              /\ EndsWith(activeTextEditor, ".xml"))
         THEN /\ Len(shownMessages) < MaxMessages
              /\ shownMessages' =
                    Append(shownMessages,
                           Warning("Please select an XML file to open with LVGL Builder."))
              /\ UNCHANGED openedWith
         ELSE LET target == IF uri = NoUri THEN activeTextEditor ELSE uri IN
              /\ openedWith' = IF viewType \in customEditors
                               THEN openedWith \cup {[uri |-> target, viewType |-> viewType]}
                               ELSE openedWith
              /\ UNCHANGED shownMessages
    /\ UNCHANGED <<activation, subscriptions, commands, customEditors, activeTextEditor>>
    /\ UNCHANGED documentVars /\ UNCHANGED editorVars /\ UNCHANGED fileVars
    /\ UNCHANGED syncVars

\* the handler of tlcsdm.lvglBuilder.generateCode
GenerateCodeCommand ==
    /\ GenerateCodeId \in commands
    /\ Len(shownMessages) < MaxMessages
    /\ shownMessages' =
          Append(shownMessages,
                 IF activeTextEditor = NoTextEditor
                 THEN Warning("Please open an LVGL XML file first.")
                 ELSE Information("Use the Generate Code button in the LVGL Builder editor."))
    /\ UNCHANGED <<activation, subscriptions, commands, customEditors, activeTextEditor,
                   openedWith>>
    /\ UNCHANGED documentVars /\ UNCHANGED editorVars /\ UNCHANGED fileVars
    /\ UNCHANGED syncVars

\* the user moves to another text editor, or to none
ChangeActiveEditor ==
    /\ \E editor \in Files \cup {NoTextEditor} :
         /\ editor # activeTextEditor
         /\ activeTextEditor' = editor
    /\ UNCHANGED <<activation, subscriptions, commands, customEditors, shownMessages,
                   openedWith>>
    /\ UNCHANGED documentVars /\ UNCHANGED editorVars /\ UNCHANGED fileVars
    /\ UNCHANGED syncVars

\* deactivate() does nothing; the host then disposes context.subscriptions
Deactivate ==
    /\ activation = "active"
    /\ activation' = "deactivated"
    /\ commands' = commands \ {subscriptions[i].id : i \in
                                 {h \in 1..Len(subscriptions) : subscriptions[h].kind = "command"}}
    /\ customEditors' = customEditors \ {subscriptions[i].id : i \in
                                 {h \in 1..Len(subscriptions) : subscriptions[h].kind = "customEditor"}}
    /\ subscriptions' = <<>>
    /\ UNCHANGED <<activeTextEditor, shownMessages, openedWith>>
    /\ UNCHANGED documentVars /\ UNCHANGED editorVars /\ UNCHANGED fileVars
    /\ UNCHANGED syncVars

NextExtension ==
    \/ Activate
    \/ OpenEditorCommand
    \/ GenerateCodeCommand
    \/ ChangeActiveEditor
    \/ Deactivate

SpecExtension == InitExtension /\ [][NextExtension]_vars

----------------------------------------------------------------------------
(* SpecOutline: the operations of the editor that change the shape of the  *)
(* forest (drop from the palette, duplicate, delete), from the empty       *)
(* document or from a document with nested elements.                       *)

MaxOutline == 5
MaxMinted  == 4

OutlineDocs ==
    { <<>>,
      <<DeclTok, WsTok(<<"\n">>), OpenRoot,
        OpenTok(<<"btn">>, <<Attr(<<"id">>, <<"b">>), Attr(<<"name">>, <<"ok">>)>>),
        EmptyTok(<<"label">>, <<Attr(<<"id">>, <<"l">>), Attr(<<"name">>, <<"cap">>)>>),
        CloseTok(<<"btn">>),
        EmptyTok(<<"switch">>, <<Attr(<<"id">>, <<"s">>), Attr(<<"name">>, <<"sw">>)>>),
        CloseRoot>> }

OutlinePalette == { c \in Range(lvglComponents) : c.type = <<"lv_", "label">> }

InitOutline ==
    /\ xmlContent \in OutlineDocs
    /\ pc = "ready"
    /\ nodes = <<>> /\ selectedNodeId = Null /\ draggedComponent = NoComponent
    /\ generatedIds = 0
    /\ NotActivated
    /\ Quiet
    /\ xmlOut = <<>> /\ nodes2 = <<>> /\ xmlOut2 = <<>>
    /\ _componentCounter = 0
    /\ rootNodes = <<>> /\ generateComments = FALSE /\ sourceContent = <<>>
    /\ firstNodes = <<>> /\ firstComments = FALSE /\ firstContent = <<>>
    /\ between = FALSE

OutlineDragStart == DragStartOf(OutlinePalette)

OutlineDrop == DropWithin(MaxOutline, MaxMinted)

OutlineDuplicate == DuplicateWithin(MaxOutline, MaxMinted)

\* the delete button with nothing selected: if (!selectedNodeId) return
DeleteNothing ==
    /\ pc = "editing"
    /\ selectedNodeId = Null
    /\ UNCHANGED vars

NextOutline ==
    \/ ReceiveInit
    \/ OutlineDragStart
    \/ OutlineDrop
    \/ SelectNode
    \/ CanvasClick
    \/ OutlineDuplicate
    \/ Delete
    \/ DeleteNothing

SpecOutline == InitOutline /\ [][NextOutline]_vars

----------------------------------------------------------------------------
(* SpecGenerate: a document is open in the custom editor, the webview has  *)
(* asked for it, and the Generate Code button is pressed; either write may *)
(* fail.                                                                   *)

\* the documents that the webview's DOMParser reads without an error, and
\* the documents of the editor
GenerateDocs ==
    { d \in Docs : d = <<>> \/ ~parseFromString(d, 1, <<>>, <<>>).error }
    \cup EditorDocs \cup OutlineDocs

DocumentUris ==
    { [dir |-> "/work",    file |-> <<"main", ".lvgl.xml">>],
      [dir |-> "/work/ui", file |-> <<"Main", "-", "2", ".xml">>] }

\* path.basename(fsPath, '.lvgl.xml')
Basename(file) ==
    IF EndsWith(file, ".lvgl.xml") THEN SubSeq(file, 1, Len(file) - 1) ELSE file

\* fileName.replace(/[^a-zA-Z0-9_]/g, '_')
ScreenName(fileName) ==
    [i \in 1..Len(fileName) |->
        CASE fileName[i] = "-"    -> "_"
          [] fileName[i] = ".xml" -> "_xml"
          [] OTHER                -> fileName[i]]

\* String.prototype.toLowerCase
ToLowerCase(text) ==
    [i \in 1..Len(text) |-> IF text[i] = "Main" THEN "main" ELSE text[i]]

\* path.join(outputDir, name)
FilePath(dir, name) == [dir |-> dir, name |-> name]

ErrorMessage(text) == [severity |-> "error", text |-> text]

InitGenerate ==
    /\ xmlContent \in GenerateDocs
    /\ documentUri \in DocumentUris
    /\ writtenFiles = <<>>
    /\ Quiet
    /\ pc = "ready"
    /\ activation = "active"
    /\ subscriptions = <<Disposable("customEditor", viewType),
                         Disposable("command", OpenEditorId),
                         Disposable("command", GenerateCodeId)>>
    /\ commands = {OpenEditorId, GenerateCodeId} /\ customEditors = {viewType}
    /\ activeTextEditor = NoTextEditor
    /\ shownMessages = <<>>
    /\ openedWith = {[uri |-> documentUri.file, viewType |-> viewType]}
    /\ nodes = <<>> /\ selectedNodeId = Null /\ draggedComponent = NoComponent
    /\ generatedIds = 0
    /\ xmlOut = <<>> /\ nodes2 = <<>> /\ xmlOut2 = <<>>
    /\ _componentCounter = 0
    /\ rootNodes = <<>> /\ generateComments = FALSE /\ sourceContent = <<>>
    /\ firstNodes = <<>> /\ firstComments = FALSE /\ firstContent = <<>>
    /\ between = FALSE

\* (a slip: the message of success is shown before the files are written)
handleGenerateCodeEarly(headerWritten, sourceWritten) ==
    LET name == ToLowerCase(ScreenName(Basename(documentUri.file))) IN
    /\ writtenFiles' =
          writtenFiles
          \o (IF headerWritten THEN <<FilePath(documentUri.dir, name \o <<".h">>)>> ELSE <<>>)
          \o (IF headerWritten /\ sourceWritten
              THEN <<FilePath(documentUri.dir, name \o <<".c">>)>> ELSE <<>>)
    /\ shownMessages' =
          shownMessages \o <<Information("Generated: <screen>.c and <screen>.h")>>
          \o (IF headerWritten /\ sourceWritten THEN <<>>
              ELSE <<ErrorMessage("Failed to generate code: <error>")>>)

\* the writes and the message of handleGenerateCode: the header, then the
\* source, then the message of success; the first write that fails leads
\* to the catch clause
handleGenerateCode(headerWritten, sourceWritten) ==
    LET name == ToLowerCase(ScreenName(Basename(documentUri.file))) IN
    /\ writtenFiles' =
          writtenFiles
          \o (IF headerWritten THEN <<FilePath(documentUri.dir, name \o <<".h">>)>> ELSE <<>>)
          \o (IF headerWritten /\ sourceWritten
              THEN <<FilePath(documentUri.dir, name \o <<".c">>)>> ELSE <<>>)
    /\ shownMessages' =
          Append(shownMessages,
                 IF headerWritten /\ sourceWritten
                 THEN Information("Generated: <screen>.c and <screen>.h")
                 ELSE ErrorMessage("Failed to generate code: <error>"))

\* the message generateCode of the webview: handleGenerateCode(document)
HandleGenerateCode ==
    /\ pc \in {"editing", "generated"}
    /\ Len(shownMessages) < MaxMessages
    /\ \E comments \in BOOLEAN :
         LET out == generateCode(parseXmlToNodes(xmlContent), comments, _componentCounter) IN
         /\ rootNodes' = parseXmlToNodes(xmlContent)
         /\ generateComments' = comments
         /\ sourceContent' = out.code
         /\ _componentCounter' = out.counter
    /\ \E headerWritten \in BOOLEAN, sourceWritten \in BOOLEAN :
         handleGenerateCode(headerWritten, sourceWritten)
    /\ pc' = "generated"
    /\ UNCHANGED <<xmlContent, nodes, xmlOut, nodes2, xmlOut2, firstNodes, firstComments,
                   firstContent, between>>
    /\ UNCHANGED editorVars
    /\ UNCHANGED <<activation, subscriptions, commands, customEditors, activeTextEditor,
                   openedWith, documentUri>>
    /\ UNCHANGED syncVars

NextGenerate ==
    \/ ReceiveInit
    \/ HandleGenerateCode

SpecGenerate == InitGenerate /\ [][NextGenerate]_vars

----------------------------------------------------------------------------
(* SpecSync: the editor and the extension in step.  An edit in the webview *)
(* posts the text to the extension; the extension replaces the document,   *)
(* and the change of the document posts the text back; the webview reads   *)
(* it again.                                                               *)

MaxEdits == 3

SyncDocs == EditorDocs \ {<<>>}

\* where the mouse lets go of a node, and the size a handle is dragged to
CanvasPositions == { <<"12">> }

CanvasSizes == { <<"40">> }

\* the texts typed into an input of the properties panel
SyncTexts == { <<"Hi">>, <<>> }

SyncProps == { <<"name">>, <<"text">> }

\* vscode.postMessage({ command: 'update', content: xml })
UpdateCommand(content) == [command |-> "update", content |-> content]

\* webviewPanel.webview.postMessage({ type: 'update', content: ... })
UpdateMessage(content) == [type |-> "update", content |-> content]

\* the node is drawn on the canvas: its kind and the kinds above it are
\* in the palette
RECURSIVE OnCanvas(_, _)
OnCanvas(forest, id) ==
    \E i \in 1..Len(forest) :
        /\ getComponentByType(forest[i].type) # NoComponent
        /\ (forest[i].id = id \/ OnCanvas(forest[i].children, id))

InitSync ==
    /\ xmlContent \in SyncDocs
    /\ pc = "ready"
    /\ nodes = <<>> /\ selectedNodeId = Null /\ draggedComponent = NoComponent
    /\ generatedIds = 0
    /\ NotActivated
    /\ Quiet
    /\ xmlOut = <<>> /\ nodes2 = <<>> /\ xmlOut2 = <<>>
    /\ _componentCounter = 0
    /\ rootNodes = <<>> /\ generateComments = FALSE /\ sourceContent = <<>>
    /\ firstNodes = <<>> /\ firstComments = FALSE /\ firstContent = <<>>
    /\ between = FALSE

\* what every edit ends with: updateXml() and the panels drawn again
PostUpdate ==
    /\ xmlOut' = updateXml(nodes')
    /\ toHost' = Append(toHost, UpdateCommand(updateXml(nodes')))
    /\ edits' = edits + 1
    /\ UNCHANGED <<toWebview, draggedComponent, generatedIds, pc>>
    /\ UNCHANGED <<xmlContent, nodes2, xmlOut2, _componentCounter, rootNodes,
                   generateComments, sourceContent, firstNodes, firstComments, firstContent,
                   between>>
    /\ UNCHANGED extensionVars

\* a click on an item of the hierarchy: selectNode(node.id)
HierarchyClick ==
    /\ pc = "editing"
    /\ \E i \in 1..Len(AllNodes(nodes)) :
         /\ selectedNodeId' = AllNodes(nodes)[i].id
         /\ panelBound' = (getComponentByType(AllNodes(nodes)[i].type) # NoComponent)
    /\ UNCHANGED <<nodes, draggedComponent, generatedIds, xmlOut, pc, toHost, toWebview, edits>>
    /\ UNCHANGED hostVars
    /\ UNCHANGED extensionVars

\* mousedown on a node of the canvas, the mouse moved or not, mouseup
MoveNode ==
    /\ pc = "editing"
    /\ edits < MaxEdits
    /\ \E i \in 1..Len(AllNodes(nodes)) :
         LET node == AllNodes(nodes)[i] IN
         /\ OnCanvas(nodes, node.id)
         /\ selectedNodeId' = node.id
         /\ \E moved \in BOOLEAN, x \in CanvasPositions, y \in CanvasPositions :
              nodes' = IF moved
                       THEN ReplaceNode(nodes, node.id,
                              [node EXCEPT !.properties =
                                  Put(Put(@, <<"x">>, PV("number", x)),
                                      <<"y">>, PV("number", y))]).list
                       ELSE nodes
    /\ panelBound' = TRUE
    /\ PostUpdate

\* mousedown on the handle of the selected node, the mouse moved, mouseup
ResizeNode ==
    /\ pc = "editing"
    /\ edits < MaxEdits
    /\ selectedNodeId # Null
    /\ OnCanvas(nodes, selectedNodeId)
    /\ LET node == findNode(selectedNodeId, nodes) IN
       \E w \in CanvasSizes, h \in CanvasSizes :
           nodes' = ReplaceNode(nodes, node.id,
                      [node EXCEPT !.properties =
                          Put(Put(@, <<"width">>, PV("number", w)),
                              <<"height">>, PV("number", h))]).list
    /\ panelBound' = TRUE
    /\ UNCHANGED selectedNodeId
    /\ PostUpdate

\* a change event of an input of the properties panel: the listener holds
\* the node that was selected when the panel was drawn
ChangeInput ==
    /\ pc = "editing"
    /\ edits < MaxEdits
    /\ selectedNodeId # Null
    /\ \E propName \in SyncProps, text \in SyncTexts :
         LET node == findNode(selectedNodeId, nodes) IN
         /\ node # NoNode
         /\ \E h \in 1..Len(componentProperties(node.type)) :
              componentProperties(node.type)[h].name = propName
         /\ nodes' = IF panelBound
                     THEN ReplaceNode(nodes, selectedNodeId,
                                      ChangedNode(node, propName, PV("string", text))).list
                     ELSE nodes
    /\ UNCHANGED <<selectedNodeId, panelBound>>
    /\ PostUpdate

\* case 'update' of the extension: updateDocument(document, content), and
\* the change of the document posts its text to the webview
HostReceiveUpdate ==
    /\ toHost # <<>>
    /\ xmlContent' = Head(toHost).content
    /\ toHost' = Tail(toHost)
    /\ toWebview' = Append(toWebview, UpdateMessage(Head(toHost).content))
    /\ UNCHANGED <<nodes, xmlOut, pc, panelBound, edits>>
    /\ UNCHANGED <<nodes2, xmlOut2, _componentCounter, rootNodes, generateComments,
                   sourceContent, firstNodes, firstComments, firstContent, between>>
    /\ UNCHANGED editorVars
    /\ UNCHANGED extensionVars

\* (a slip: the webview posts the text it has just read)
WebviewReceiveUpdateEchoing ==
    /\ toWebview # <<>>
    /\ LET parsed == webviewParseXml(Head(toWebview).content, generatedIds) IN
         /\ nodes' = parsed.nodes
         /\ generatedIds' = parsed.generated
    /\ toWebview' = Tail(toWebview)
    /\ panelBound' = FALSE
    /\ toHost' = Append(toHost, UpdateCommand(updateXml(nodes')))
    /\ xmlOut' = updateXml(nodes')
    /\ UNCHANGED <<selectedNodeId, draggedComponent, pc, edits>>
    /\ UNCHANGED hostVars
    /\ UNCHANGED extensionVars

\* case 'update' of the webview: nodes = parseXml(message.content), the
\* canvas and the hierarchy drawn again, the properties panel left
WebviewReceiveUpdate ==
    /\ toWebview # <<>>
    /\ LET parsed == webviewParseXml(Head(toWebview).content, generatedIds) IN
         /\ nodes' = parsed.nodes
         /\ generatedIds' = parsed.generated
    /\ toWebview' = Tail(toWebview)
    /\ panelBound' = FALSE
    /\ UNCHANGED <<selectedNodeId, draggedComponent, pc, xmlOut, toHost, edits>>
    /\ UNCHANGED hostVars
    /\ UNCHANGED extensionVars

NextSync ==
    \/ ReceiveInit
    \/ HierarchyClick
    \/ MoveNode
    \/ ResizeNode
    \/ ChangeInput
    \/ HostReceiveUpdate
    \/ WebviewReceiveUpdate

SpecSync == InitSync /\ [][NextSync]_vars

\* what a step of the webview's handler does to the two queues: the handler
\* reads any text it is given, so it can run exactly when a message waits
WebviewTakesUpdate ==
    /\ toWebview # <<>>
    /\ toWebview' = Tail(toWebview)
    /\ toHost' = toHost

\* the extension host and the webview handle every message they are sent
SpecSyncFair ==
    /\ SpecSync
    /\ WF_vars(HostReceiveUpdate)
    /\ WF_toWebview(WebviewTakesUpdate)

----------------------------------------------------------------------------
(* SpecAll: a document goes through the extension, or it is opened in the  *)
(* editor.                                                                 *)

InitAll == Init \/ InitEditor

NextAll == Next \/ NextEditor

SpecAll == InitAll /\ [][NextAll]_vars

----------------------------------------------------------------------------
(* What the claims speak of *)

NoWs(doc) == SelectSeq(doc, LAMBDA tk : tk.t # "ws")

WhitespaceOnly(doc) == NoWs(doc) = <<>>

\* the tags are balanced and matched, and one element holds everything
RECURSIVE Balanced(_, _, _)
Balanced(toks, i, open) ==
    IF i > Len(toks) THEN open = <<>>
    ELSE CASE toks[i].t = "open"  ->
                (i = 1 \/ open # <<>>) /\ Balanced(toks, i + 1, Append(open, toks[i].tag))
           [] toks[i].t = "empty" -> open # <<>> /\ Balanced(toks, i + 1, open)
           [] toks[i].t = "close" ->
                /\ open # <<>>
                /\ open[Len(open)] = toks[i].tag
                /\ Balanced(toks, i + 1, SubSeq(open, 1, Len(open) - 1))
           [] OTHER -> FALSE

\* a well-formed document of the markup format: an optional declaration,
\* then the root wrapper around balanced elements
WellFormed(doc) ==
    LET toks  == NoWs(doc)
        inner == IF toks # <<>> /\ toks[1].t = "decl" THEN Tail(toks) ELSE toks
    IN  /\ inner # <<>>
        /\ inner[1].t = "open" /\ inner[1].tag = <<"lvgl">>
        /\ Balanced(inner, 1, <<>>)

Malformed(doc) == ~WhitespaceOnly(doc) /\ ~WellFormed(doc)

\* the elements inside the root wrapper, as tokens
ElementToks(doc) == SelectSeq(doc, LAMBDA tk : tk.t \in {"open", "empty"} /\ tk.tag # <<"lvgl">>)

\* the document is the root wrapper around self-closed elements only
Flat(doc) == WellFormed(doc) /\ \A i \in 1..Len(ElementToks(doc)) : ElementToks(doc)[i].t = "empty"

IsSynthesized(id) == Len(id) > 0 /\ id[Len(id)] = "<random>"

RECURSIVE SameUpToSynthesizedIds(_, _)
SameUpToSynthesizedIds(F, G) ==
    /\ Len(F) = Len(G)
    /\ \A i \in 1..Len(F) :
         /\ F[i].type = G[i].type
         /\ F[i].name = G[i].name
         /\ F[i].properties = G[i].properties
         /\ (IsSynthesized(F[i].id) \/ F[i].id = G[i].id)
         /\ SameUpToSynthesizedIds(F[i].children, G[i].children)

NumericChunks == {"0", "1", "10", "20", "30", "100", "200", "1.0"}

LooksNumeric(s) == Len(s) = 1 /\ s[1] \in NumericChunks

Known(node) == getComponentByType(node.type) # NoComponent

\* the nodes the emitter reaches: pre-order, not below an unknown kind
RECURSIVE Reached(_)
Reached(forest) ==
    IF forest = <<>> THEN <<>>
    ELSE <<Head(forest)>>
         \o (IF Known(Head(forest)) THEN Reached(Head(forest).children) ELSE <<>>)
         \o Reached(Tail(forest))

ReachedKnown(forest)   == SelectSeq(Reached(forest), Known)
ReachedUnknown(forest) == SelectSeq(Reached(forest), LAMBDA n : ~Known(n))

Lines(code, k)       == SelectSeq(code, LAMBDA l : l.k = k)
Calls(code, fn)      == SelectSeq(code, LAMBDA l : l.k = "call" /\ l.fn = fn)
UnknownLines(code)   == SelectSeq(code, LAMBDA l : l.k = "comment" /\ l.fn = "Unknown component type")
PropertyCalls(code)  ==
    SelectSeq(code, LAMBDA l : l.k = "call" /\ l.fn \notin {"lv_obj_set_pos", "lv_obj_set_size"})

RECURSIVE SumProperties(_)
SumProperties(ns) ==
    IF ns = <<>> THEN 0 ELSE Len(Head(ns).properties) + SumProperties(Tail(ns))

HasProperty(node, k) == \E i \in 1..Len(node.properties) : node.properties[i].k = k

PropertyText(node, k) ==
    node.properties[CHOOSE i \in 1..Len(node.properties) : node.properties[i].k = k].v.s

\* the indices of the construction statements, in order
DeclIndices(code) == SelectSeq([i \in 1..Len(code) |-> i], LAMBDA i : code[i].k = "decl")

----------------------------------------------------------------------------
(* Claims *)

\* C1: parsing the serialization of a parsed forest gives the same forest
\* again in every field (kind, name, property keys, property values with
\* their types, children and their order); only synthesized ids may differ.
C1_RoundTrip ==
    pc \in {"reparsed", "reserialized"} => SameUpToSynthesizedIds(nodes, nodes2)

\* C2: serializing, parsing and serializing again gives the same text as
\* the first serialization.
C2_SerializeIdempotent ==
    pc = "reserialized" => xmlOut2 = xmlOut

\* C3: a generateCode call on the arguments of the first call gives what the
\* first call gave, whatever calls came in between.
C3_CounterReset ==
    (pc = "called" /\ rootNodes = firstNodes /\ generateComments = firstComments)
        => sourceContent = firstContent

C3_Witness ==
    /\ pc = "called"
    /\ between
    /\ rootNodes = firstNodes
    /\ rootNodes = <<UnnamedLabel, UnnamedObj>>
    /\ _componentCounter = 3
    /\ \E i \in 1..Len(sourceContent) :
         sourceContent[i].k = "decl" /\ sourceContent[i].args[1] = <<"label", "_", "3">>

\* C4: an unknown kind gives one comment line and nothing else, nothing
\* comes from below it, and the nodes after it are emitted: the comment
\* lines are as many as the unknown nodes reached, the construction,
\* position and size statements and the blank lines as many as the known
\* nodes not below an unknown one, and the property statements no more than
\* the properties of those known nodes.
C4_UnknownKind ==
    pc = "emitted" =>
        /\ Len(UnknownLines(sourceContent)) = Len(ReachedUnknown(rootNodes))
        /\ Len(Lines(sourceContent, "decl")) = Len(ReachedKnown(rootNodes))
        /\ Len(Calls(sourceContent, "lv_obj_set_pos")) = Len(ReachedKnown(rootNodes))
        /\ Len(Calls(sourceContent, "lv_obj_set_size")) = Len(ReachedKnown(rootNodes))
        /\ Len(Lines(sourceContent, "blank")) = Len(ReachedKnown(rootNodes))
        /\ Len(PropertyCalls(sourceContent)) <= SumProperties(ReachedKnown(rootNodes))

C4_Witness ==
    /\ pc = "emitted"
    /\ rootNodes = <<UnknownTree, NamedObj>>
    /\ ~generateComments
    /\ Len(sourceContent) = 10
    /\ sourceContent[1].k = "comment"
    /\ sourceContent[2].k = "decl" /\ sourceContent[2].args[1] = <<"box">>

\* C5: every construction statement is directly followed by one position
\* and one size statement of the same variable, there are no others, and
\* the k-th known node reached gives x, y, width, height where it has them
\* and 0, 0, 100, 50 where it has not.
C5_Geometry ==
    pc = "emitted" =>
        LET d  == DeclIndices(sourceContent)
            ns == ReachedKnown(rootNodes)
            G(n, k, dflt) == IF HasProperty(n, k) THEN PropertyText(n, k) ELSE dflt
        IN  /\ Len(d) = Len(ns)
            /\ Len(Calls(sourceContent, "lv_obj_set_pos")) = Len(d)
            /\ Len(Calls(sourceContent, "lv_obj_set_size")) = Len(d)
            /\ \A k \in 1..Len(d) :
                 LET var == sourceContent[d[k]].args[1] IN
                 /\ d[k] + 2 <= Len(sourceContent)
                 /\ sourceContent[d[k] + 1] =
                        Call(<<"    ">>, "lv_obj_set_pos",
                             <<var, G(ns[k], <<"x">>, <<"0">>), G(ns[k], <<"y">>, <<"0">>)>>)
                 /\ sourceContent[d[k] + 2] =
                        Call(<<"    ">>, "lv_obj_set_size",
                             <<var, G(ns[k], <<"width">>, <<"100">>),
                                    G(ns[k], <<"height">>, <<"50">>)>>)

C5_Witness ==
    /\ pc = "emitted"
    /\ rootNodes = <<UnnamedLabel, SizedLabel>>
    /\ ~generateComments
    /\ sourceContent[2].args = <<<<"label", "_", "1">>, <<"0">>, <<"0">>>>
    /\ sourceContent[3].args = <<<<"label", "_", "1">>, <<"100">>, <<"50">>>>
    /\ sourceContent[7].args = <<<<"label", "_", "2">>, <<"100">>, <<"30">>>>

\* C6: empty or whitespace-only text parses to the empty forest, and the
\* parser library does not throw on it.
C6_EmptyInput ==
    (pc # "doc" /\ WhitespaceOnly(xmlContent))
        => (nodes = <<>> /\ ~parseXml(xmlContent).thrown)

C6_Witness ==
    /\ pc = "parsed"
    /\ xmlContent # <<>>
    /\ WhitespaceOnly(xmlContent)
    /\ nodes = <<>>

\* C7: malformed markup parses to the empty forest.
C7_MalformedYieldsEmpty ==
    (pc = "parsed" /\ Malformed(xmlContent)) => nodes = <<>>

\* C8: a property whose text looks numeric is stored as a number, the texts
\* true and false as booleans, every other text as a string.
C8_Coercion ==
    pc = "parsed" =>
        \A i \in 1..Len(AllNodes(nodes)) :
            \A h \in 1..Len(AllNodes(nodes)[i].properties) :
                LET v == AllNodes(nodes)[i].properties[h].v IN
                v.ty = (IF LooksNumeric(v.s) THEN "number"
                        ELSE IF v.s \in {<<"true">>, <<"false">>} THEN "boolean"
                        ELSE "string")

\* C9: the forest lists the elements in the order of the markup, also when
\* elements of different tag names are interleaved (every element here
\* carries attributes).
C9_DocumentOrder ==
    (pc = "parsed" /\ Flat(xmlContent)
       /\ \A i \in 1..Len(ElementToks(xmlContent)) : ElementToks(xmlContent)[i].attrs # <<>>)
        => [i \in 1..Len(nodes) |-> nodes[i].type]
             = [i \in 1..Len(ElementToks(xmlContent)) |-> NodeType(ElementToks(xmlContent)[i].tag)]

\* C10: of a well-formed document every element inside the root wrapper
\* becomes exactly one node, also an element with no attribute and no child,
\* and neither the wrapper nor the declaration becomes a node.
C10_OneNodePerElement ==
    (pc = "parsed" /\ WellFormed(xmlContent)) =>
        /\ CountNodes(nodes) = Len(ElementToks(xmlContent))
        /\ \A i \in 1..Len(AllNodes(nodes)) :
             AllNodes(nodes)[i].type \notin {<<"lv_", "lvgl">>, <<"lv_", "?xml">>}

\* C11: every node of the parsed forest has a kind that is not empty and
\* starts with lv_, and the kind is the name of one of the document's tags:
\* that name itself when it starts with lv_, lv_ followed by it when not.
C11_KindPrefixed ==
    pc = "parsed" =>
        \A i \in 1..Len(AllNodes(nodes)) :
            LET type == AllNodes(nodes)[i].type IN
            /\ type # <<>>
            /\ type[1] = "lv_"
            /\ \E h \in 1..Len(xmlContent) :
                 LET tk == xmlContent[h] IN
                 /\ tk.t \in {"open", "empty", "decl"}
                 /\ type = (IF tk.tag[1] = "lv_" THEN tk.tag ELSE <<"lv_">> \o tk.tag)

C11_Witness ==
    /\ pc = "parsed"
    /\ Len(nodes) = 1
    /\ nodes[1].type = <<"lv_", "obj">>
    /\ Len(nodes[1].children) = 1
    /\ nodes[1].children[1].type = <<"lv_", "label">>
    /\ \E h \in 1..Len(xmlContent) : xmlContent[h].tag = <<"label">>

\* what the drop handler makes of each component of the registry
DroppedOfEveryComponent ==
    [i \in 1..Len(lvglComponents) |->
        DroppedNode(lvglComponents[i], <<"12">>, <<"40">>, 0, generateId(1))]

NoReservedKey(node) ==
    \A i \in 1..Len(node.properties) : node.properties[i].k \notin {<<"id">>, <<"name">>}

\* C12: no node has a property called id or name: no node of a parsed
\* forest (the extension's parser or the webview's), no node of the editor's
\* forest after drops, changes in the properties panel (renaming too),
\* duplications and deletions, and no node that a drop makes of any
\* component of the registry.
C12_ReservedKeys ==
    /\ \A i \in 1..Len(AllNodes(nodes)) : NoReservedKey(AllNodes(nodes)[i])
    /\ \A i \in 1..Len(AllNodes(nodes2)) : NoReservedKey(AllNodes(nodes2)[i])
    /\ \A i \in 1..Len(lvglComponents) : NoReservedKey(DroppedOfEveryComponent[i])

C12_Witness ==
    /\ pc = "editing"
    /\ Len(nodes) = 3
    /\ nodes[1].type = <<"lv_", "switch">> /\ nodes[1].name = <<"Hi">>
    /\ Get(nodes[1].properties, <<"checked">>) = PV("boolean", <<"true">>)
    /\ nodes[2].name = <<"Hi", "_copy">>
    /\ nodes[2].id = generateId(2)
    /\ Get(nodes[2].properties, <<"x">>) = PV("number", <<"20">>)
    /\ nodes[3].type = <<"lv_", "label">> /\ nodes[3].name = <<"label", "_", "3">>

\* the one node of the forest and its one property
OneProperty == Len(rootNodes) = 1 /\ Len(rootNodes[1].properties) = 1
TheType     == rootNodes[1].type
TheName     == rootNodes[1].properties[1].k
TheValue    == rootNodes[1].properties[1].v

\* C13: a switch or a checkbox whose property checked is the boolean true
\* gives exactly one property statement, lv_obj_add_state of the node's
\* variable with LV_STATE_CHECKED; with the boolean false it gives none.
C13_Checked ==
    (/\ pc = "emitted" /\ OneProperty
     /\ TheType \in {<<"lv_", "switch">>, <<"lv_", "checkbox">>}
     /\ TheName = <<"checked">>
     /\ TheValue.ty = "boolean")
        => IF TheValue.s = <<"true">>
           THEN PropertyCalls(sourceContent)
                  = <<Call(<<"    ">>, "lv_obj_add_state", <<<<"w">>, <<"LV_STATE_CHECKED">>>>)>>
           ELSE PropertyCalls(sourceContent) = <<>>

C13_Witness ==
    /\ pc = "emitted" /\ OneProperty
    /\ TheType = <<"lv_", "checkbox">>
    /\ TheName = <<"checked">>
    /\ TheValue = PV("boolean", <<"true">>)
    /\ Len(Calls(sourceContent, "lv_obj_add_state")) = 1

\* every node of a forest in depth-first order, with whether the emitter
\* reaches it (it is not below a node of an unknown kind)
RECURSIVE Marked(_, _)
Marked(forest, reach) ==
    IF forest = <<>> THEN <<>>
    ELSE <<[node |-> Head(forest), reached |-> reach]>>
         \o Marked(Head(forest).children, reach /\ Known(Head(forest)))
         \o Marked(Tail(forest), reach)

\* the variables of the construction statements, in order
DeclVars(code) == [i \in 1..Len(Lines(code, "decl")) |-> Lines(code, "decl")[i].args[1]]

\* the names of the reached nodes among ms, the unnamed ones numbered in the
\* order of ms
NumberedNames(ms) ==
    LET name(k) ==
            IF ms[k].node.name # <<>> THEN ms[k].node.name
            ELSE Tail(ms[k].node.type)
                 \o <<"_", ToString(Cardinality({h \in 1..k : ms[h].node.name = <<>>}))>>
        RECURSIVE From(_)
        From(k) == IF k > Len(ms) THEN <<>>
                   ELSE (IF ms[k].reached THEN <<name(k)>> ELSE <<>>) \o From(k + 1)
    IN  From(1)

\* C14 as stated: the unnamed nodes of a known kind are numbered in
\* depth-first order over the whole forest, and the variable of an emitted
\* node is its name or its kind without the prefix, _ and its number.
C14_NumberedOverAllNodes ==
    pc = "emitted" =>
        DeclVars(sourceContent)
          = NumberedNames(SelectSeq(Marked(rootNodes, TRUE), LAMBDA m : Known(m.node)))

\* C14, amended: the numbering runs over the unnamed nodes of a known kind
\* that are not below a node of an unknown kind.
C14_VariableNames ==
    pc = "emitted" =>
        DeclVars(sourceContent)
          = NumberedNames(SelectSeq(Marked(rootNodes, TRUE),
                                    LAMBDA m : Known(m.node) /\ m.reached))

C14_Witness ==
    /\ pc = "emitted"
    /\ rootNodes = <<UnnamedObj, UnnamedLabel>>
    /\ DeclVars(sourceContent)
         = << <<"obj", "_", "1">>, <<"label", "_", "2">>, <<"label", "_", "3">> >>

\* the style table as the specification lists it: background colour and
\* opacity, border colour and width, corner radius, text and line colour,
\* line width, the four paddings, row and column padding
StyleTable ==
    { [name |-> <<"bg_", "color">>,     setter |-> "lv_obj_set_style_bg_color",     colour |-> TRUE],
      [name |-> <<"bg_opa">>,           setter |-> "lv_obj_set_style_bg_opa",       colour |-> FALSE],
      [name |-> <<"border_", "color">>, setter |-> "lv_obj_set_style_border_color", colour |-> TRUE],
      [name |-> <<"border_width">>,     setter |-> "lv_obj_set_style_border_width", colour |-> FALSE],
      [name |-> <<"radius">>,           setter |-> "lv_obj_set_style_radius",       colour |-> FALSE],
      [name |-> <<"text_", "color">>,   setter |-> "lv_obj_set_style_text_color",   colour |-> TRUE],
      [name |-> <<"line_", "color">>,   setter |-> "lv_obj_set_style_line_color",   colour |-> TRUE],
      [name |-> <<"line_width">>,       setter |-> "lv_obj_set_style_line_width",   colour |-> FALSE],
      [name |-> <<"pad_top">>,          setter |-> "lv_obj_set_style_pad_top",      colour |-> FALSE],
      [name |-> <<"pad_bottom">>,       setter |-> "lv_obj_set_style_pad_bottom",   colour |-> FALSE],
      [name |-> <<"pad_left">>,         setter |-> "lv_obj_set_style_pad_left",     colour |-> FALSE],
      [name |-> <<"pad_right">>,        setter |-> "lv_obj_set_style_pad_right",    colour |-> FALSE],
      [name |-> <<"pad_row">>,          setter |-> "lv_obj_set_style_pad_row",      colour |-> FALSE],
      [name |-> <<"pad_column">>,       setter |-> "lv_obj_set_style_pad_column",   colour |-> FALSE] }

IsStyleName(name) == \E e \in StyleTable : e.name = name

StyleEntry(name) == CHOOSE e \in StyleTable : e.name = name

RECURSIVE Escaped(_)
Escaped(text) ==
    IF text = <<>> THEN <<>>
    ELSE (IF Head(text) \in {"\\", "\""} THEN <<"\\", Head(text)>> ELSE <<Head(text)>>)
         \o Escaped(Tail(text))

Rendered(value) ==
    IF value.ty = "string" THEN <<"\"">> \o Escaped(value.s) \o <<"\"">> ELSE value.s

\* the statements that are fixed texts or name an enumeration member, and
\* carry no value
FixedStatements ==
    { "lv_obj_add_state", "lv_label_set_long_mode", "lv_obj_set_layout", "lv_obj_set_flex_flow" }

\* the property is a colour of the style table with a value beginning with #
IsColourConstruction ==
    /\ IsStyleName(TheName) /\ StyleEntry(TheName).colour
    /\ TheValue.ty = "string" /\ TheValue.s # <<>> /\ TheValue.s[1] = "#"

\* C16: in every statement that carries the value of the property (the
\* generic style setters and the setters of the kinds), the value is
\* written as the token true or false when it is a boolean, between double
\* quotes and escaped when it is a string, bare when it is a number; the
\* colour construction of C15 apart.
C16_ValueRendering ==
    (pc = "emitted" /\ OneProperty /\ ~IsColourConstruction) =>
        \A i \in 1..Len(PropertyCalls(sourceContent)) :
            LET st == PropertyCalls(sourceContent)[i] IN
            st.fn \notin FixedStatements => st.args[2] = Rendered(TheValue)

\* the property names that the dispatch on the kind knows
Recognized(type, name) ==
    \/ type = <<"lv_", "label">> /\ name \in {<<"text">>, <<"long_mode">>}
    \/ type \in {<<"lv_", "arc">>, <<"lv_", "bar">>, <<"lv_", "slider">>} /\ name = <<"value">>
    \/ type \in {<<"lv_", "switch">>, <<"lv_", "checkbox">>} /\ name = <<"checked">>
    \/ type = <<"lv_", "checkbox">> /\ name = <<"text">>
    \/ type \in {<<"lv_", "dropdown">>, <<"lv_", "roller">>}
         /\ name \in {<<"options">>, <<"selected">>}
    \/ type = <<"lv_", "textarea">>
         /\ name \in {<<"text">>, <<"placeholder">>, <<"one_line">>, <<"password_mode">>}
    \/ type = <<"lv_", "img">> /\ name \in {<<"src">>, <<"zoom">>, <<"angle">>}
    \/ /\ type \notin {<<"lv_", "label">>, <<"lv_", "btn">>, <<"lv_", "arc">>, <<"lv_", "bar">>,
                       <<"lv_", "slider">>, <<"lv_", "switch">>, <<"lv_", "checkbox">>,
                       <<"lv_", "dropdown">>, <<"lv_", "roller">>, <<"lv_", "textarea">>,
                       <<"lv_", "img">>, <<"lv_", "spinner">>}
       /\ name \in {<<"layout">>, <<"flex_flow">>}

\* C17: a kind, a property name and a value give no statement or one; a
\* name of the style table gives exactly the statement of its style setter
\* and nothing from the dispatch on the kind; a name that is a geometry
\* name, or neither a style name nor known to the dispatch on the kind,
\* gives nothing.
C17_ZeroOrOne ==
    (pc = "emitted" /\ OneProperty) =>
        LET calls == PropertyCalls(sourceContent) IN
        /\ Len(calls) <= 1
        /\ Len(sourceContent) = Len(calls)
               + (IF Known(rootNodes[1]) THEN (IF generateComments THEN 5 ELSE 4) ELSE 1)
        /\ (Known(rootNodes[1]) /\ IsStyleName(TheName))
             => (Len(calls) = 1 /\ calls[1].fn = StyleEntry(TheName).setter)
        /\ (\/ ~Known(rootNodes[1])
            \/ TheName \in {<<"x">>, <<"y">>, <<"width">>, <<"height">>}
            \/ (~IsStyleName(TheName) /\ ~Recognized(TheType, TheName)))
             => calls = <<>>

C17_Witness ==
    /\ pc = "emitted" /\ OneProperty
    /\ TheType = <<"lv_", "label">>
    /\ TheName = <<"text_", "color">>
    /\ TheValue = PV("string", <<"Hi">>)
    /\ Len(PropertyCalls(sourceContent)) = 1
    /\ PropertyCalls(sourceContent)[1].fn = "lv_obj_set_style_text_color"

\* the elements of a text in order, each with the number of elements open
\* around it and the token written before it
RECURSIVE Nesting(_, _, _)
Nesting(toks, i, depth) ==
    IF i > Len(toks) THEN <<>>
    ELSE LET here == [tok |-> toks[i], depth |-> depth,
                      before |-> IF i > 1 THEN toks[i - 1] ELSE WsTok(<<>>)]
         IN  CASE toks[i].t = "open"  -> <<here>> \o Nesting(toks, i + 1, depth + 1)
               [] toks[i].t = "empty" -> <<here>> \o Nesting(toks, i + 1, depth)
               [] toks[i].t = "close" -> Nesting(toks, i + 1, depth - 1)
               [] OTHER               -> Nesting(toks, i + 1, depth)

\* the depth of every node of a forest, in depth-first order
RECURSIVE Depths(_, _)
Depths(forest, d) ==
    IF forest = <<>> THEN <<>>
    ELSE <<d>> \o Depths(Head(forest).children, d + 1) \o Depths(Tail(forest), d)

\* C18: the serialized text is the declaration and the root wrapper around
\* one element per node, in depth-first order: the tag is the kind without
\* its prefix, the first two attributes are id and name with the node's id
\* and name, the others are the property keys in their stored order; a node
\* without children is a self-closed tag, a node with children an opening
\* tag; every element lies inside the element of its parent, one indent
\* step deeper, and the closing tags match the opening tags.
C18_SerializerFormat ==
    pc = "serialized" =>
        LET els == Tail(Nesting(xmlOut, 1, 0))
            ns  == AllNodes(nodes)
            ds  == Depths(nodes, 1)
        IN  /\ WellFormed(xmlOut)
            /\ Len(els) = Len(ns)
            /\ \A k \in 1..Len(ns) :
                 LET el == els[k].tok
                     nd == ns[k]
                 IN  /\ <<"lv_">> \o el.tag = nd.type
                     /\ Len(el.attrs) = 2 + Len(nd.properties)
                     /\ el.attrs[1] = Attr(<<"id">>, nd.id)
                     /\ el.attrs[2] = Attr(<<"name">>, nd.name)
                     /\ \A h \in 1..Len(nd.properties) : el.attrs[2 + h].k = nd.properties[h].k
                     /\ el.t = (IF nd.children = <<>> THEN "empty" ELSE "open")
                     /\ els[k].depth = ds[k]
                     /\ els[k].before = WsTok([j \in 1..ds[k] |-> "  "])

C18_Witness ==
    /\ pc = "serialized"
    /\ Len(nodes) = 1
    /\ nodes[1].type = <<"lv_", "btn">>
    /\ Len(nodes[1].children) = 1
    /\ Len(nodes[1].children[1].properties) = 3
    /\ \E i \in 1..Len(xmlOut) : xmlOut[i] = CloseTok(<<"btn">>)

\* the value of a geometry property as a statement shows it
Shown(properties, k, dflt) ==
    IF \E i \in 1..Len(properties) : properties[i].k = k
    THEN (properties[CHOOSE i \in 1..Len(properties) : properties[i].k = k].v).s
    ELSE dflt

\* the statement st stands in the block of statements that begins at line i
InBlock(code, i, st) ==
    \E j \in (i + 1)..Len(code) :
        /\ code[j] = st
        /\ \A h \in (i + 1)..j : code[h].k = "call"

\* C19: the document <lvgl version="1.0"><label id="t" name="title"
\* text="Hi"/></lvgl> is parsed to one node of kind lv_label with the name
\* title, the properties {text: "Hi"} and no children, and generated
\* without comments it gives the construction of title, its position 0, 0,
\* its size 100, 50 and lv_label_set_text(title, "Hi"); and for every
\* document, every element of a known kind that the emitter reaches gives
\* its construction statement, then its position and size with the written
\* values or the defaults, then the statements of its properties (the text
\* of a label, the state of a checked switch) before the blank line.
C19_LabelScenario ==
    /\ (xmlContent = <<OpenRoot, TitleLabel, CloseRoot>> /\ pc # "doc") =>
          /\ nodes = <<LvglNode(<<"t">>, <<"lv_", "label">>, <<"title">>,
                                <<Prop(<<"text">>, "string", <<"Hi">>)>>, <<>>)>>
          /\ (pc = "generated" /\ ~generateComments) =>
                sourceContent =
                  <<Line("decl", <<"    ">>, "lv_label_create", <<<<"title">>, <<"parent">>>>),
                    Call(<<"    ">>, "lv_obj_set_pos", <<<<"title">>, <<"0">>, <<"0">>>>),
                    Call(<<"    ">>, "lv_obj_set_size", <<<<"title">>, <<"100">>, <<"50">>>>),
                    Call(<<"    ">>, "lv_label_set_text", <<<<"title">>, <<"\"", "Hi", "\"">>>>),
                    BlankLine>>
    /\ pc = "generated" =>
          LET ms == SelectSeq(Marked(nodes, TRUE), LAMBDA m : Known(m.node) /\ m.reached)
              at == SelectSeq([i \in 1..Len(sourceContent) |-> i],
                              LAMBDA i : sourceContent[i].k = "decl")
          IN  /\ Len(at) = Len(ms)
              /\ \A k \in 1..Len(ms) :
                   LET nd == ms[k].node
                       i  == at[k]
                       v  == sourceContent[i].args[1]
                   IN  /\ sourceContent[i].fn = getComponentByType(nd.type).createCode
                       /\ i + 2 <= Len(sourceContent)
                       /\ sourceContent[i + 1]
                            = Call(<<"    ">>, "lv_obj_set_pos",
                                   <<v, Shown(nd.properties, <<"x">>, <<"0">>),
                                        Shown(nd.properties, <<"y">>, <<"0">>)>>)
                       /\ sourceContent[i + 2]
                            = Call(<<"    ">>, "lv_obj_set_size",
                                   <<v, Shown(nd.properties, <<"width">>, <<"100">>),
                                        Shown(nd.properties, <<"height">>, <<"50">>)>>)
                       /\ \A h \in 1..Len(nd.properties) :
                            LET p == nd.properties[h] IN
                            /\ (nd.type = <<"lv_", "label">> /\ p.k = <<"text">>)
                                 => InBlock(sourceContent, i,
                                            Call(<<"    ">>, "lv_label_set_text",
                                                 <<v, Rendered(p.v)>>))
                            /\ (nd.type = <<"lv_", "switch">> /\ p.k = <<"checked">>
                                  /\ p.v = PV("boolean", <<"true">>))
                                 => \E st \in {sourceContent[j] : j \in 1..Len(sourceContent)} :
                                      /\ st.fn = "lv_obj_add_state" /\ st.args[1] = v
                                      /\ InBlock(sourceContent, i, st)

C19_Witness ==
    /\ xmlContent = <<OpenRoot, TitleLabel, CloseRoot>>
    /\ pc = "generated" /\ ~generateComments
    /\ Len(nodes) = 1 /\ nodes[1].name = <<"title">>
    /\ Len(Calls(sourceContent, "lv_label_set_text")) = 1

\* C20: while the extension is activated, whatever commands have been
\* invoked and in whatever order, tlcsdm.lvglBuilder.openEditor and
\* tlcsdm.lvglBuilder.generateCode are registered commands and the provider
\* of tlcsdm.lvglBuilder.editor is registered.
C20_Registered ==
    activation = "active" =>
        /\ "tlcsdm.lvglBuilder.openEditor" \in commands
        /\ "tlcsdm.lvglBuilder.generateCode" \in commands
        /\ "tlcsdm.lvglBuilder.editor" \in customEditors

C20_Witness ==
    /\ activation = "active"
    /\ Len(shownMessages) = 3
    /\ shownMessages[1].severity = "information"
    /\ shownMessages[2].text = "Please select an XML file to open with LVGL Builder."
    /\ shownMessages[3].text = "Please open an LVGL XML file first."
    /\ Cardinality(openedWith) = 2
    /\ {"tlcsdm.lvglBuilder.openEditor", "tlcsdm.lvglBuilder.generateCode"} \subseteq commands

\* the nodes that the emitter constructs, in depth-first pre-order, each
\* with the place of its parent in this order (0 at the top level); done is
\* the number of nodes before the forest
RECURSIVE Walk(_, _, _)
Walk(forest, parent, done) ==
    IF forest = <<>> THEN <<>>
    ELSE LET n == Head(forest) IN
         IF ~Known(n) THEN Walk(Tail(forest), parent, done)
         ELSE LET me    == done + 1
                  below == Walk(n.children, me, me)
              IN  <<[node |-> n, parent |-> parent]>> \o below
                  \o Walk(Tail(forest), parent, me + Len(below))

\* the places of the construction statements
DeclAt(code) == SelectSeq([i \in 1..Len(code) |-> i], LAMBDA i : code[i].k = "decl")

\* C21: the construction statements are those of the constructed nodes in
\* depth-first pre-order (a node, its descendants, then its following
\* siblings); every statement between the construction of a node and the
\* next construction is a statement on that node's variable, so the
\* geometry and property statements of a node follow its construction and
\* precede every statement of its descendants and following siblings; the
\* parent argument of a construction is the variable of the parent node,
\* and parent at the top level.
C21_PreOrder ==
    pc = "emitted" =>
        LET ms == Walk(rootNodes, 0, 0)
            at == DeclAt(sourceContent)
        IN  /\ Len(at) = Len(ms)
            /\ \A k \in 1..Len(ms) :
                 LET decl == sourceContent[at[k]]
                     last == IF k < Len(at) THEN at[k + 1] - 1 ELSE Len(sourceContent)
                 IN  /\ decl.fn = getComponentByType(ms[k].node.type).createCode
                     /\ ms[k].node.name # <<>> => decl.args[1] = ms[k].node.name
                     /\ decl.args[2] = (IF ms[k].parent = 0 THEN <<"parent">>
                                        ELSE sourceContent[at[ms[k].parent]].args[1])
                     /\ at[k] + 2 <= last
                     /\ sourceContent[at[k] + 1].fn = "lv_obj_set_pos"
                     /\ sourceContent[at[k] + 2].fn = "lv_obj_set_size"
                     /\ \A i \in (at[k] + 1)..last :
                          sourceContent[i].k = "call" => sourceContent[i].args[1] = decl.args[1]

C21_Witness ==
    /\ pc = "emitted"
    /\ rootNodes = <<UnnamedObj, NamedLabel>>
    /\ Len(DeclAt(sourceContent)) = 3
    /\ sourceContent[DeclAt(sourceContent)[2]].args
         = << <<"label", "_", "2">>, <<"obj", "_", "1">> >>
    /\ sourceContent[DeclAt(sourceContent)[3]].args = << <<"title">>, <<"parent">> >>

\* the last line at or before i that is not a comment
RECURSIVE LastStatement(_, _)
LastStatement(code, i) ==
    IF i > 1 /\ code[i].k = "comment" THEN LastStatement(code, i - 1) ELSE i

\* the place of the last statement of the subtree of the k-th constructed
\* node: the one before the construction of the next node that is not
\* below it
SubtreeEnd(ms, at, code, k) ==
    LET RECURSIVE Below(_)
        Below(h) == h > k /\ (ms[h].parent = k \/ Below(ms[h].parent))
        next  == {h \in (k + 1)..Len(ms) : ~Below(h)}
    IN  IF next = {} THEN LastStatement(code, Len(code))
        ELSE LastStatement(code, at[CHOOSE x \in next : \A y \in next : x <= y] - 1)

\* C22: the blank line of a node comes after the node and all of its
\* descendants: there is no blank line between the construction of a node
\* and the construction of its first child, and the subtree of a node ends
\* with a blank line.
C22_BlankAfterSubtree ==
    pc = "emitted" =>
        LET ms == Walk(rootNodes, 0, 0)
            at == DeclAt(sourceContent)
        IN  \A k \in 1..Len(ms) :
              /\ sourceContent[SubtreeEnd(ms, at, sourceContent, k)].k = "blank"
              /\ (k < Len(ms) /\ ms[k + 1].parent = k)
                   => \A i \in at[k]..at[k + 1] : sourceContent[i].k # "blank"

\* the blank line of a node with a constructed child is written before the
\* child, after the node's own statements
C22_Witness ==
    /\ pc = "emitted"
    /\ rootNodes = <<UnnamedObj>>
    /\ ~generateComments
    /\ [i \in 1..Len(sourceContent) |-> sourceContent[i].k]
         = <<"decl", "call", "call", "call", "blank",
             "decl", "call", "call", "blank">>

\* the ids of a forest, in depth-first order
Ids(forest) == [i \in 1..Len(AllNodes(forest)) |-> AllNodes(forest)[i].id]

DistinctIds(forest) ==
    \A i, j \in 1..Len(Ids(forest)) : Ids(forest)[i] = Ids(forest)[j] => i = j

\* C23: from a document whose ids are pairwise distinct, after any
\* sequence of drop, duplicate and delete the ids of the forest are
\* pairwise distinct; a duplication leaves the forest it found as it was,
\* ids included, and appends a copy of the selected subtree, of the same
\* shape, in which no id is an id of the forest before.
C23_FreshIds ==
    /\ [](DistinctIds(nodes))
    /\ [][OutlineDuplicate =>
            LET original == findNode(selectedNodeId, nodes)
                copy     == nodes'[Len(nodes')]
            IN  /\ Len(nodes') = Len(nodes) + 1
                /\ SubSeq(nodes', 1, Len(nodes)) = nodes
                /\ Len(Ids(<<copy>>)) = Len(Ids(<<original>>))
                /\ \A i \in 1..Len(Ids(<<copy>>)) :
                     /\ AllNodes(<<copy>>)[i].type = AllNodes(<<original>>)[i].type
                     /\ Ids(<<copy>>)[i] \notin Range(Ids(nodes))]_vars

\* the button with its label has been duplicated
C23_Witness ==
    /\ Len(nodes) = 3
    /\ Ids(nodes) = << <<"b">>, <<"l">>, <<"s">>, generateId(1), generateId(2) >>
    /\ nodes[3].name = <<"ok", "_copy">>
    /\ Len(nodes[3].children) = 1
    /\ selectedNodeId = generateId(1)

\* a forest without the nodes of an id and what is below them: every other
\* node as it is, in the order it had
RECURSIVE Without(_, _)
Without(forest, id) ==
    IF forest = <<>> THEN <<>>
    ELSE (IF Head(forest).id = id THEN <<>>
          ELSE <<[Head(forest) EXCEPT !.children = Without(Head(forest).children, id)]>>)
         \o Without(Tail(forest), id)

\* C24: a delete with a node selected leaves the forest without that node
\* and its subtree, every other node with its fields and in its order,
\* clears the selection and posts the new text; a delete with nothing
\* selected changes neither the forest nor the selection and posts nothing.
C24_Delete ==
    /\ [][Delete =>
            /\ nodes' = Without(nodes, selectedNodeId)
            /\ CountNodes(nodes')
                 = CountNodes(nodes) - CountNodes(<<findNode(selectedNodeId, nodes)>>)
            /\ selectedNodeId' = Null
            /\ xmlOut' = nodesToXml(nodes')]_vars
    /\ [][DeleteNothing => (nodes' = nodes /\ selectedNodeId' = Null /\ xmlOut' = xmlOut)]_vars

\* the button of the document has been deleted with its label
C24_Witness ==
    /\ pc = "editing"
    /\ xmlContent # <<>>
    /\ Ids(nodes) = << <<"s">> >>
    /\ selectedNodeId = Null
    /\ nodesToXml(nodes) = xmlOut

\* the names of a forest, in depth-first order
Names(forest) == [i \in 1..Len(AllNodes(forest)) |-> AllNodes(forest)[i].name]

DistinctNames(forest) ==
    \A i, j \in 1..Len(Names(forest)) : Names(forest)[i] = Names(forest)[j] => i = j

\* C29: from the empty document, after any sequence of drop, duplicate and
\* delete, the names of the nodes are pairwise distinct.
C29_DistinctNames ==
    xmlContent = <<>> => DistinctNames(nodes)

\* two labels dropped, the first deleted, a third dropped: two nodes of the
\* name label_2
C29_Witness ==
    /\ xmlContent = <<>>
    /\ Len(nodes) = 2
    /\ Ids(nodes) = <<generateId(2), generateId(3)>>
    /\ Names(nodes) = << <<"label", "_", "2">>, <<"label", "_", "2">> >>

\* no element of the document has a name attribute
NoNameAttribute(doc) ==
    \A i \in 1..Len(doc) :
        doc[i].t \in {"open", "empty"}
          => \A h \in 1..Len(doc[i].attrs) : doc[i].attrs[h].k # <<"name">>

\* C28: the code generated from a parsed document whose elements have no
\* name attribute declares no variable twice.
C28_DistinctVariables ==
    (pc = "generated" /\ NoNameAttribute(xmlContent)) =>
        \A i, j \in 1..Len(DeclVars(sourceContent)) :
            DeclVars(sourceContent)[i] = DeclVars(sourceContent)[j] => i = j

\* two labels without a name are both declared as label
C28_Witness ==
    /\ pc = "generated"
    /\ xmlContent = <<OpenRoot, EntityLabel, EntityLabel, CloseRoot>>
    /\ Len(nodes) = 2
    /\ DeclVars(sourceContent) = << <<"label">>, <<"label">> >>

\* what a sequence has gained in a step
Gained(before, after) == SubSeq(after, Len(before) + 1, Len(after))

\* the names of the generated files: the screen name in lower case
GeneratedBase ==
    IF documentUri.file = <<"main", ".lvgl.xml">> THEN <<"main">>
    ELSE <<"main", "_", "2", "_xml">>

\* C26: handleGenerateCode ends with one message, an information or an
\* error: the information exactly when the header and then the source have
\* been written to the folder of the document; with the error either
\* nothing has been written or the header alone.
C26_OneMessage ==
    [][HandleGenerateCode =>
         LET said   == Gained(shownMessages, shownMessages')
             wrote  == Gained(writtenFiles, writtenFiles')
             header == [dir |-> documentUri.dir, name |-> GeneratedBase \o <<".h">>]
             source == [dir |-> documentUri.dir, name |-> GeneratedBase \o <<".c">>]
         IN  /\ SubSeq(shownMessages', 1, Len(shownMessages)) = shownMessages
             /\ SubSeq(writtenFiles', 1, Len(writtenFiles)) = writtenFiles
             /\ Len(said) = 1
             /\ said[1].severity \in {"information", "error"}
             /\ said[1].severity = "information" <=> wrote = <<header, source>>
             /\ said[1].severity = "error" => wrote \in {<<>>, <<header>>}]_vars

\* a generation whose second write failed, then one that went through
C26_Witness ==
    /\ pc = "generated"
    /\ documentUri.dir = "/work/ui"
    /\ Len(shownMessages) = 2
    /\ shownMessages[1].severity = "error"
    /\ shownMessages[2].severity = "information"
    /\ Len(writtenFiles) = 3
    /\ writtenFiles[1].name = <<"main", "_", "2", "_xml", ".h">>
    /\ writtenFiles[3].name = <<"main", "_", "2", "_xml", ".c">>

\* two forests with the same kinds, names, order, children and typed
\* property values (the ids apart)
RECURSIVE SameForest(_, _)
SameForest(f, g) ==
    /\ Len(f) = Len(g)
    /\ \A i \in 1..Len(f) :
         /\ f[i].type = g[i].type
         /\ f[i].name = g[i].name
         /\ f[i].properties = g[i].properties
         /\ SameForest(f[i].children, g[i].children)

\* C30: for a document that both parsers read, the forest the editor shows
\* (parseXml of the webview) and the forest the code is generated from
\* (parseXmlToNodes) have the same kinds, names, order, children and typed
\* property values.
C30_ParsersAgree ==
    pc = "generated" => SameForest(nodes, rootNodes)

\* the editor shows a button, the generator has no node
C30_Witness ==
    /\ pc = "generated"
    /\ xmlContent = <<OpenRoot, BareBtn, CloseRoot>>
    /\ Len(nodes) = 1
    /\ nodes[1].type = <<"lv_", "btn">>
    /\ rootNodes = <<>>
    /\ sourceContent = <<>>

\* two forests of one shape whose nodes agree in the fields named
RECURSIVE SameTree(_, _, _)
SameTree(f, g, fields) ==
    /\ Len(f) = Len(g)
    /\ \A i \in 1..Len(f) :
         /\ "id" \in fields => f[i].id = g[i].id
         /\ "type" \in fields => f[i].type = g[i].type
         /\ "name" \in fields => f[i].name = g[i].name
         /\ SameTree(f[i].children, g[i].children, fields)

\* the webview reads the text that it posted for the forest it holds
CycleEnds == WebviewReceiveUpdate /\ Head(toWebview).content = nodesToXml(nodes)

\* C25: when the text that the webview posted for its forest after an edit
\* comes back and is read again, the forest has the same shape and every
\* node has the id, the kind and the name it had.
C25_IdentityKept ==
    [][CycleEnds => SameTree(nodes, nodes', {"id", "type", "name"})]_vars

\* what the cycle does keep: the forest has the same shape and every node
\* the id and the kind it had; it has the name it had when that was not
\* empty, and the name of its tag when it was.
C25_IdKept ==
    [][CycleEnds =>
         /\ SameTree(nodes, nodes', {"id", "type"})
         /\ \A i \in 1..Len(AllNodes(nodes)) :
              AllNodes(nodes')[i].name
                = (IF AllNodes(nodes)[i].name = <<>> THEN Tail(AllNodes(nodes)[i].type)
                   ELSE AllNodes(nodes)[i].name)]_vars

\* the name of the label was emptied; the text came back and the label is
\* named label
C25_Witness ==
    /\ pc = "editing"
    /\ toHost = <<>> /\ toWebview = <<>>
    /\ edits = 2
    /\ selectedNodeId = generateId(1)
    /\ \E i \in 1..Len(xmlOut) :
         /\ xmlOut[i].t = "empty"
         /\ xmlOut[i].attrs[1] = Attr(<<"id">>, generateId(1))
         /\ xmlOut[i].attrs[2] = Attr(<<"name">>, <<>>)
    /\ xmlContent = xmlOut
    /\ findNode(generateId(1), nodes).name = <<"label">>

\* C27: an edit posts one update to the extension and nothing to the
\* webview; the extension takes an update and posts one to the webview; the
\* webview takes it, reads it and posts nothing; the messages not yet
\* handled are never more than the edits made, and once the edits stop
\* there are no messages left, for good.
C27_Quiesces ==
    /\ [][(MoveNode \/ ResizeNode \/ ChangeInput) =>
            /\ toHost' = Append(toHost, UpdateCommand(nodesToXml(nodes')))
            /\ toWebview' = toWebview]_vars
    /\ [][HostReceiveUpdate =>
            /\ toHost' = Tail(toHost)
            /\ toWebview' = Append(toWebview, UpdateMessage(xmlContent'))]_vars
    /\ [][WebviewReceiveUpdate =>
            /\ toHost' = toHost
            /\ toWebview' = Tail(toWebview)]_vars
    /\ [][WebviewTakesUpdate <=> WebviewReceiveUpdate]_vars
    /\ [](Len(toHost) + Len(toWebview) <= edits)
    /\ <>[](toHost = <<>> /\ toWebview = <<>>)

\* one edit has gone round: the document is the text posted, nothing is
\* left to handle
C27_Witness ==
    /\ pc = "editing"
    /\ edits = 1
    /\ toHost = <<>> /\ toWebview = <<>>
    /\ xmlOut # <<>>
    /\ xmlContent = xmlOut
    /\ panelBound = FALSE
    /\ selectedNodeId # Null

====
